---- MODULE Spec2Model ----
(***************************************************************************)
(* Verification model of the type-graph core: the TypeBuilder (identity    *)
(* deduplication, commit-once, set-once fields, freezing), the generic     *)
(* Graph algorithms, the cycle breaker, the declaration scheduler and the  *)
(* naming engine.  Every component has its own specification over the      *)
(* shared variables; the variables of the other components stay idle.      *)
(***************************************************************************)
EXTENDS Integers, Sequences, FiniteSets, TLC

\* ------------------------------------------------------------------------
\* Bounds of the model
\* ------------------------------------------------------------------------
MaxTypes == 3
MaxNodes == 3
MaxNames == 3
MaxMembers == 3
MaxChain == 3
MaxCalls == 2

\* ------------------------------------------------------------------------
\* Values shared by all components
\* ------------------------------------------------------------------------

\* An optional value is the empty tuple (undefined) or a one-element tuple
None == <<>>
Some(x) == <<x>>
\* a value under a name: const name = value, then the body
With(value, Body(_)) == Body(value)

\* ------------------------------------------------------------------------
\* TypeRef and TypeGraph (TypeGraph.ts is not part of the sources; modelled
\* from the specification: a ref pairs the graph with an index)
\* ------------------------------------------------------------------------
ThisGraph == "G"
OtherGraph == "H"

\* the value of a TypeRef-typed variable that is undefined
NoRef == [graph |-> "", index |-> -1]

makeTypeRef(graph, index) == [graph |-> graph, index |-> index]
typeRefIndex(ref) == ref.index
\* assertTypeRefGraph: TRUE when the ref belongs to the builder's graph
assertTypeRefGraph(ref) == ref.graph = ThisGraph

\* ------------------------------------------------------------------------
\* Type attributes
\* ------------------------------------------------------------------------
AttributeKinds == {"description", "pattern", "provenance", "minMax"}
emptyTypeAttributes == [k \in {} |-> {}]

\* TypeAttributeKind.inIndentity
inIndentity(k) == k \in {"pattern", "minMax"}
\* TypeAttributeKind.requireUniqueIdentity (default: false)
requireUniqueIdentity(k, v) == FALSE
\* TypeAttributeKind.appliesToTypeKind
appliesToTypeKind(k, typeKind) == IF k = "provenance" THEN TRUE ELSE typeKind # "any"
\* kind.combine for two values of the same kind
combineValues(k, a, b) ==
  IF k = "pattern" THEN "(" \o a \o ")|(" \o b \o ")" ELSE a \cup b

\* combineTypeAttributes("union", a, b)
combineTypeAttributes(a, b) ==
  [k \in DOMAIN a \cup DOMAIN b |->
     IF k \in DOMAIN a /\ k \in DOMAIN b THEN combineValues(k, a[k], b[k])
     ELSE IF k \in DOMAIN a THEN a[k] ELSE b[k]]

mapFilterKeys(attrs, keep) == [k \in {x \in DOMAIN attrs : x \in keep} |-> attrs[k]]
identityAttributes(attrs) == mapFilterKeys(attrs, {k \in AttributeKinds : inIndentity(k)})
nonIdentityAttributes(attrs) == mapFilterKeys(attrs, {k \in AttributeKinds : ~inIndentity(k)})
hasUniqueIdentityAttributes(attrs) == \E k \in DOMAIN attrs : requireUniqueIdentity(k, attrs[k])

\* ------------------------------------------------------------------------
\* Types (Type.ts): one record shape for every kind.  ref is NoRef, and
\* memberRefs and properties are None, while they are not set.
\* ------------------------------------------------------------------------
Type(typeRef, kind) ==
  [kind |-> kind, typeRef |-> typeRef, ref |-> NoRef, memberRefs |-> None,
   properties |-> None, additionalPropertiesRef |-> NoRef,
   isFixed |-> FALSE, cases |-> {}]

\* the content of a reserved index that holds no type yet
NoType == Type(NoRef, "undefined")

PrimitiveType(typeRef, kind) == Type(typeRef, kind)
ArrayType(typeRef, ref) == [Type(typeRef, "array") EXCEPT !.ref = ref]

\* ObjectType constructor: NoType when one of its assertions fails
ObjectType(typeRef, kind, isFixed, properties, additionalPropertiesRef) ==
  LET holds ==
        IF kind = "map"
        THEN (IF properties # None THEN DOMAIN properties[1] = {} ELSE ~isFixed)
        ELSE IF kind = "class" THEN additionalPropertiesRef = NoRef
        ELSE isFixed
  IN IF holds
     THEN [Type(typeRef, kind) EXCEPT !.isFixed = isFixed, !.properties = properties,
                                      !.additionalPropertiesRef = additionalPropertiesRef]
     ELSE NoType

ClassType(typeRef, isFixed, properties) == ObjectType(typeRef, "class", isFixed, properties, NoRef)

IntersectionType(typeRef, memberRefs) == [Type(typeRef, "intersection") EXCEPT !.memberRefs = memberRefs]
\* UnionType constructor: messageAssert(memberRefs.size > 0) when members are
\* given; NoType when it fails
UnionType(typeRef, memberRefs) ==
  IF memberRefs # None /\ memberRefs[1] = {} THEN NoType
  ELSE [Type(typeRef, "union") EXCEPT !.memberRefs = memberRefs]

\* Type.index (the getter of the abstract class)
TypeIndex(t) == 1

\* TypeIdentity: the tuple (kind, components); equality is equality of
\* tuples.  An undefined identity is None.
TypeIdentity(kind, components) == <<kind, components>>

primitiveTypeIndentity(kind, attributes) ==
  IF hasUniqueIdentityAttributes(attributes) THEN None
  ELSE TypeIdentity(kind, <<identityAttributes(attributes)>>)
arrayTypeIdentity(attributes, ref) ==
  IF hasUniqueIdentityAttributes(attributes) THEN None
  ELSE TypeIdentity("array", <<identityAttributes(attributes), ref>>)
objectTypeIdentify(kind, attributes, properties, additionalPropertiesRef) ==
  IF hasUniqueIdentityAttributes(attributes) THEN None
  ELSE TypeIdentity(kind, <<identityAttributes(attributes), properties, additionalPropertiesRef>>)
classTypeIdentity(attributes, properties) == objectTypeIdentify("class", attributes, properties, NoRef)
setOperationTypeIdentity(kind, attributes, memberRefs) ==
  IF hasUniqueIdentityAttributes(attributes) THEN None
  ELSE TypeIdentity(kind, <<identityAttributes(attributes), memberRefs>>)
uninTypeIdentity(attributes, memberRefs) == setOperationTypeIdentity("union", attributes, memberRefs)
intersectionTypeIdentity(attributes, memberRefs) == setOperationTypeIdentity("intersection", attributes, memberRefs)

\* UnionType.isCanonical of a union whose members have the kinds of
\* memberKinds, one element per member
isCanonical(memberKinds) ==
  LET kinds == {memberKinds[i] : i \in DOMAIN memberKinds}
      numObjectTypes == Cardinality(kinds \cap {"class", "map", "object"})
  IN IF Len(memberKinds) <= 1 THEN FALSE
     ELSE IF Cardinality(kinds) < Len(memberKinds) THEN FALSE
     ELSE IF "union" \in kinds \/ "intersection" \in kinds THEN FALSE
     ELSE IF "none" \in kinds \/ "any" \in kinds THEN FALSE
     ELSE IF "string" \in kinds \/ "enum" \in kinds THEN FALSE
     ELSE IF numObjectTypes > 1 THEN FALSE
     ELSE TRUE

\* ------------------------------------------------------------------------
\* TypeBuilder (TypeBuilder.ts)
\* ------------------------------------------------------------------------
VARIABLES
  types,                        \* TypeBuilder.types; index i is at position i + 1
  typeAttributes,               \* TypeBuilder.#typeAttributes, parallel to types
  topLevels,                    \* TypeBuilder.topLevels: name -> TypeRef
  typeForIdentity,              \* TypeBuilder.#typeForIdentity: identity -> TypeRef
  addedForwardingIntersection,  \* TypeBuilder.#addedForwardingIntersection
  stringTypeMapping,            \* constructor argument
  addProvenanceAttributes,      \* constructor argument
  allPropertiesOptional,        \* constructor argument
  typeGraph,                    \* what finish() froze into the TypeGraph, or None
  madeBy,                       \* per index: the path of addType that committed it
  lastCall,                     \* the last call on the builder and its outcome
  input,                        \* the arguments of the function that is called
  output                        \* what the function returned

builderVars == <<types, typeAttributes, topLevels, typeForIdentity, addedForwardingIntersection,
                 stringTypeMapping, addProvenanceAttributes, allPropertiesOptional,
                 typeGraph, madeBy, lastCall>>

\* The mutable part of the builder, threaded through the methods.  ok turns
\* FALSE when an assertion fails: the effects made before it stay, as they
\* do when the exception leaves the method.  ret is the returned TypeRef.
Builder ==
  [types |-> types, attrs |-> typeAttributes, tfi |-> typeForIdentity,
   fwd |-> addedForwardingIntersection, madeBy |-> madeBy, ok |-> TRUE, ret |-> NoRef]

Failed(b) == [b EXCEPT !.ok = FALSE, !.ret = NoRef]

\* TypeBuilder.reserveTypeRef
reserveTypeRef(b) ==
  LET index == Len(b.types)
      attributes == IF addProvenanceAttributes THEN [k \in {"provenance"} |-> {index}]
                    ELSE emptyTypeAttributes
  IN [b EXCEPT !.types = Append(@, NoType), !.attrs = Append(@, attributes),
               !.madeBy = Append(@, "reserved"), !.ret = makeTypeRef(ThisGraph, index)]

\* TypeBuilder.filterTypeAttributes
filterTypeAttributes(t, attributes) ==
  mapFilterKeys(attributes, {k \in AttributeKinds : appliesToTypeKind(k, t.kind)})

\* TypeBuilder.commitType
commitType(b, ref, t) ==
  IF ~assertTypeRefGraph(ref) THEN Failed(b)
  ELSE LET index == typeRefIndex(ref)
       IN IF b.types[index + 1] # NoType THEN Failed(b)
          ELSE [b EXCEPT !.types[index + 1] = t,
                         !.attrs[index + 1] = filterTypeAttributes(t, @)]

\* addType as it would be if it stored the type itself, without the
\* assertions of addType and commitType
addTypeOverwriting(b, forwardingRef, creator, attributes, how) ==
  LET b1 == IF forwardingRef # NoRef THEN b ELSE reserveTypeRef(b)
      ref == IF forwardingRef # NoRef THEN forwardingRef ELSE b1.ret
      index == typeRefIndex(ref)
  IN IF ~assertTypeRefGraph(ref) \/ creator = NoType THEN Failed(b1)
     ELSE [b1 EXCEPT !.types[index + 1] = [creator EXCEPT !.typeRef = ref],
                     !.ret = ref, !.madeBy[index + 1] = how]

\* TypeBuilder.addType.  creator is the type the creator callback constructs,
\* still without its ref, and NoType when the constructor throws; attributes
\* is None when the caller passes undefined
addType(b, forwardingRef, creator, attributes, how) ==
  IF forwardingRef # NoRef
     /\ (~assertTypeRefGraph(forwardingRef) \/ b.types[typeRefIndex(forwardingRef) + 1] # NoType)
  THEN Failed(b)
  ELSE With(IF forwardingRef # NoRef THEN b ELSE reserveTypeRef(b), LAMBDA b1 :
       With(IF forwardingRef # NoRef THEN forwardingRef ELSE b1.ret, LAMBDA ref :
       With(IF attributes # None
            THEN [b1 EXCEPT !.attrs[typeRefIndex(ref) + 1] =
                              combineTypeAttributes(@, attributes[1])]
            ELSE b1, LAMBDA b2 :
       With(IF creator = NoType THEN Failed(b2)
            ELSE commitType(b2, ref, [creator EXCEPT !.typeRef = ref]), LAMBDA b3 :
         IF b3.ok THEN [b3 EXCEPT !.ret = ref, !.madeBy[typeRefIndex(ref) + 1] = how]
         ELSE b3))))

\* TypeBuilder.addAttributes
addAttributes(b, ref, attributes) ==
  IF ~assertTypeRefGraph(ref) THEN Failed(b)
  ELSE LET index == typeRefIndex(ref)
           existingAttributes == b.attrs[index + 1]
           identityKept ==
             \A k \in DOMAIN attributes :
               inIndentity(k) =>
                 /\ k \in DOMAIN existingAttributes
                 /\ existingAttributes[k] # ""
                 /\ existingAttributes[k] = attributes[k]
           maybe == b.types[index + 1]
           filtered == IF maybe # NoType THEN filterTypeAttributes(maybe, attributes) ELSE attributes
       IN IF ~identityKept THEN Failed(b)
          ELSE [b EXCEPT !.attrs[index + 1] =
                           combineTypeAttributes(existingAttributes, nonIdentityAttributes(filtered))]

\* TypeBuilder.addForwardingIntersection
addForwardingIntersection(b, forwardingRef, ref) ==
  IF ~assertTypeRefGraph(ref) THEN Failed(b)
  ELSE addType([b EXCEPT !.fwd = TRUE], forwardingRef,
               IntersectionType(NoRef, Some({ref})), None, "forwarding")

\* TypeBuilder.forwardIfNecessary
forwardIfNecessary(b, forwardRef, ref) ==
  IF ref = NoRef THEN [b EXCEPT !.ret = NoRef]
  ELSE IF forwardRef = NoRef THEN [b EXCEPT !.ret = ref]
  ELSE addForwardingIntersection(b, forwardRef, ref)

\* registerTypeForIdentity as it would be if it forgot the identity
registerNoIdentity(b, identity, ref) == b

\* TypeBuilder.registerTypeForIdentity
registerTypeForIdentity(b, identity, ref) ==
  IF identity = None THEN b
  ELSE LET old == b.tfi
       IN [b EXCEPT !.tfi = [id \in DOMAIN old \cup {identity} |->
                               IF id = identity THEN ref ELSE old[id]]]

\* TypeBuilder.getOrAddType
getOrAddType(b, identity, creator, attributes, forwardingRef) ==
  LET maybe == IF identity = None THEN NoRef
               ELSE IF identity \in DOMAIN b.tfi THEN b.tfi[identity] ELSE NoRef
  IN IF maybe # NoRef
     THEN With(forwardIfNecessary(b, forwardingRef, maybe), LAMBDA b1 :
          IF ~b1.ok THEN b1
          ELSE With(IF attributes # None
                    THEN addAttributes(b1, b1.ret, nonIdentityAttributes(attributes[1]))
                    ELSE b1, LAMBDA b2 :
               IF ~b2.ok THEN b2 ELSE [b2 EXCEPT !.ret = b1.ret]))
     ELSE With(addType(b, forwardingRef, creator, attributes, "identity"), LAMBDA b1 :
          IF ~b1.ok THEN b1 ELSE registerTypeForIdentity(b1, identity, b1.ret))

\* Type.ts: kinds
TransformedStringTypeKinds == {"date", "time", "date-time", "uuid", "uri", "integer-string", "bool-string"}
isPrimitiveStringTypeKind(kind) == kind = "string" \/ kind \in TransformedStringTypeKinds
isNumberTypeKind(kind) == kind \in {"integer", "double"}
isPrimitiveTypeKind(kind) ==
  isPrimitiveStringTypeKind(kind) \/ isNumberTypeKind(kind) \/ kind \in {"none", "any", "null", "bool"}

\* stringTypeMappingGet
stringTypeMappingGet(stm, kind) ==
  IF kind \in DOMAIN stm /\ stm[kind] # "" THEN stm[kind] ELSE "string"

\* TypeBuilder.getStringType; stringTypes is "" when undefined.  The filtered
\* attribute map `exist` is an object and therefore always truthy.
getStringType(b, attributes, stringTypes, ref) ==
  LET exist == TRUE
  IN IF (stringTypes = "") = (~exist) THEN Failed(b)
     ELSE getOrAddType(b, primitiveTypeIndentity("string", attributes),
                       PrimitiveType(NoRef, "string"), Some(attributes), ref)

\* TypeBuilder.getPrimitiveType; maybeAttributes is None when omitted
getPrimitiveType(b, kind, maybeAttributes, ref) ==
  LET attributes == IF maybeAttributes = None THEN emptyTypeAttributes ELSE maybeAttributes[1]
      strintTypes == IF kind = "string" THEN "" ELSE "unrestricted"
      mapped == IF isPrimitiveTypeKind(kind) /\ kind # "string"
                THEN stringTypeMappingGet(stringTypeMapping, kind) ELSE kind
  IN IF mapped = "string" THEN getStringType(b, attributes, strintTypes, ref)
     ELSE getOrAddType(b, primitiveTypeIndentity(mapped, attributes),
                       PrimitiveType(NoRef, mapped), Some(attributes), ref)

\* TypeBuilder.makeClassProperty / ClassProperty
ClassProperty(ref, isOptional) == [typeRef |-> ref, isOptional |-> isOptional]

\* TypeBuilder.modifyPropertiesIfNecessary; None when a property's ref is of
\* another graph.  Properties are a function of the name, so that the order
\* that cannonicalOrder establishes is not part of the value.
modifyPropertiesIfNecessary(properties) ==
  IF \E n \in DOMAIN properties : ~assertTypeRefGraph(properties[n].typeRef) THEN None
  ELSE IF allPropertiesOptional
       THEN Some([n \in DOMAIN properties |-> ClassProperty(properties[n].typeRef, TRUE)])
       ELSE Some(properties)

\* TypeBuilder.getArrayType
getArrayType(b, attributes, items, ref) ==
  IF ~assertTypeRefGraph(items) THEN Failed(b)
  ELSE getOrAddType(b, arrayTypeIdentity(attributes, items),
                    ArrayType(NoRef, items), Some(attributes), ref)

\* TypeBuilder.getUniqueArrayType
getUniqueArrayType(b, ref) ==
  addType(b, ref, ArrayType(NoRef, NoRef), None, "unique")

\* TypeBuilder.getClassType
getClassType(b, attributes, properties, ref) ==
  LET modified == modifyPropertiesIfNecessary(properties)
  IN IF modified = None THEN Failed(b)
     ELSE getOrAddType(b, classTypeIdentity(attributes, modified[1]),
                       ClassType(NoRef, FALSE, modified), Some(attributes), ref)

\* TypeBuilder.getUniqueClassType; properties is None when undefined
getUniqueClassType(b, attributes, isFixed, properties, ref) ==
  LET modified == IF properties = None THEN Some(None)
                  ELSE LET m == modifyPropertiesIfNecessary(properties[1])
                       IN IF m = None THEN None ELSE Some(m)
  IN IF modified = None THEN Failed(b)
     ELSE addType(b, ref, ClassType(NoRef, isFixed, modified[1]), Some(attributes), "unique")

\* TypeBuilder.getUnionType
getUnionType(b, attributes, members, ref) ==
  IF \E m \in members : ~assertTypeRefGraph(m) THEN Failed(b)
  ELSE getOrAddType(b, uninTypeIdentity(attributes, members),
                    UnionType(NoRef, Some(members)), Some(attributes), ref)

\* TypeBuilder.getUniqueUnionType; members is None when undefined
getUniqueUnionType(b, attributes, members, ref) ==
  IF members # None /\ (\E m \in members[1] : ~assertTypeRefGraph(m)) THEN Failed(b)
  ELSE addType(b, ref, UnionType(NoRef, members), Some(attributes), "unique")

\* TypeBuilder.getIntersectionType
getIntersectionType(b, attributes, members, ref) ==
  IF \E m \in members : ~assertTypeRefGraph(m) THEN Failed(b)
  ELSE getOrAddType(b, intersectionTypeIdentity(attributes, members),
                    IntersectionType(NoRef, Some(members)), Some(attributes), ref)

\* TypeBuilder.getUniqueIntersectionType; members is None when undefined
getUniqueIntersectionType(b, attributes, members, ref) ==
  IF members # None /\ (\E m \in members[1] : ~assertTypeRefGraph(m)) THEN Failed(b)
  ELSE addType(b, ref, IntersectionType(NoRef, members), Some(attributes), "unique")

\* derefTypeRef(ref, typeGraph) (TypeGraph.ts, modelled from the
\* specification): the type at the ref's index, read through the builder
\* while the graph is not frozen and from the frozen arena afterwards;
\* NoType when the ref is foreign or resolves to no type
derefTypeRef(b, ref) ==
  IF ~assertTypeRefGraph(ref) THEN NoType
  ELSE IF typeGraph # None /\ typeRefIndex(ref) >= typeGraph[1].numTypes THEN NoType
  ELSE b.types[typeRefIndex(ref) + 1]

\* the `identity` getters of PrimitiveType, ArrayType and SetOperationType;
\* None while the items or the members are not set (registerType reads it
\* when they are)
identity(b, t) ==
  LET attributes == b.attrs[typeRefIndex(t.typeRef) + 1]
  IN IF t.kind = "array"
     THEN (IF t.ref = NoRef THEN None ELSE arrayTypeIdentity(attributes, t.ref))
     ELSE IF t.kind \in {"union", "intersection"}
     THEN (IF t.memberRefs = None THEN None
           ELSE setOperationTypeIdentity(t.kind, attributes, t.memberRefs[1]))
     ELSE primitiveTypeIndentity(t.kind, attributes)

\* TypeBuilder.registerType
registerType(b, t) == registerTypeForIdentity(b, identity(b, t), t.typeRef)

\* TypeBuilder.setArrayItem with ArrayType.setItems
setArrayItem(b, ref, items) ==
  IF ~assertTypeRefGraph(items) THEN Failed(b)
  ELSE LET type == derefTypeRef(b, ref)
           index == typeRefIndex(ref)
       IN IF type = NoType \/ type.kind # "array" THEN Failed(b)
          ELSE IF type.ref # NoRef THEN Failed(b)
          ELSE LET b1 == [b EXCEPT !.types[index + 1].ref = items]
               IN registerType(b1, b1.types[index + 1])

\* TypeBuilder.setSetOperationMembers with SetOperationType.setMembers and
\* UnionType.setMembers
setSetOperationMembers(b, ref, members) ==
  IF \E m \in members : ~assertTypeRefGraph(m) THEN Failed(b)
  ELSE LET type == derefTypeRef(b, ref)
           index == typeRefIndex(ref)
       IN IF type = NoType \/ type.kind \notin {"union", "intersection"} THEN Failed(b)
          ELSE IF type.kind = "union" /\ members = {} THEN Failed(b)
          ELSE IF type.memberRefs # None THEN Failed(b)
          ELSE LET b1 == [b EXCEPT !.types[index + 1].memberRefs = Some(members)]
               IN registerType(b1, b1.types[index + 1])

\* TypeBuilder.setObjectProperties: after its checks the method does nothing
setObjectProperties(b, ref, properties, additionalProperties) ==
  IF additionalProperties # NoRef /\ ~assertTypeRefGraph(additionalProperties) THEN Failed(b)
  ELSE LET type == derefTypeRef(b, ref)
       IN IF type = NoType \/ type.kind \notin {"object", "map", "class"} THEN Failed(b)
          ELSE b

\* TypeBuilder.addTopLevel
addTopLevel(tl, b, name, ref) ==
  IF name \in DOMAIN tl THEN None
  ELSE IF ~(typeRefIndex(ref) + 1 \in DOMAIN b.types) \/ b.types[typeRefIndex(ref) + 1] = NoType THEN None
  ELSE Some([n \in DOMAIN tl \cup {name} |-> IF n = name THEN ref ELSE tl[n]])

\* TypeBuilder.finish with TypeGraph.freeze (TypeGraph.ts, modelled from the
\* specification): every reserved index must hold a type (`defined`), a
\* graph is frozen once, and the graph keeps the top-levels, the types and
\* the attributes it is given.  The Type objects stay shared with the
\* builder, so the graph records how many there are.
finish(b, tl) ==
  IF \E i \in DOMAIN b.types : b.types[i] = NoType THEN None
  ELSE IF typeGraph # None THEN None
  ELSE Some([topLevels |-> tl, numTypes |-> Len(b.types), typeAttributes |-> b.attrs])

\* ------------------------------------------------------------------------
\* The calls a client makes on a TypeBuilder
\* ------------------------------------------------------------------------
AttributeInputs == {emptyTypeAttributes, [k \in {"pattern"} |-> "p"]}
PrimitiveKindInputs == {"integer", "date"}
PropertyNames == {"a"}
TopLevelNames == {"T"}

\* constructor arguments
DefaultConfiguration ==
  [stringTypeMapping |-> [k \in {"date"} |-> "date"], addProvenanceAttributes |-> TRUE,
   allPropertiesOptional |-> FALSE]
OptionalConfiguration ==
  [stringTypeMapping |-> [k \in {} |-> ""], addProvenanceAttributes |-> FALSE,
   allPropertiesOptional |-> TRUE]

ReservedRefs == {makeTypeRef(ThisGraph, i) : i \in 0 .. Len(types) - 1}
ForeignRef == makeTypeRef(OtherGraph, 0)
\* the refs a call is made on: every reserved ref and a ref of another graph
RefInputs == ReservedRefs \cup {ForeignRef}
ForwardingRefInputs == ReservedRefs \cup {NoRef}
\* the refs a call passes as items, members and property types: the first
\* reserved ref and a ref of another graph
ChildRefInputs == (ReservedRefs \cap {makeTypeRef(ThisGraph, 0)}) \cup {ForeignRef}
MemberInputs == {{r} : r \in ChildRefInputs}
PropertyInputs ==
  [PropertyNames -> {ClassProperty(r, FALSE) : r \in ChildRefInputs}]

\* the variables of the other components
otherVars == <<input, output>>
NotCalled == [called |-> FALSE, ok |-> FALSE, value |-> <<>>]
OtherIdle == input = <<>> /\ output = NotCalled

\* what the call found: "busy" when its forwarding ref already held a type,
\* "hit" when getOrAddType found the identity, "reset" when the field a
\* setter was to set had a value
CallCase(b, forwardingRef, wasSet) ==
  (IF forwardingRef # NoRef /\ assertTypeRefGraph(forwardingRef)
      /\ types[typeRefIndex(forwardingRef) + 1] # NoType
   THEN {"busy"} ELSE {})
  \cup (IF b.ok /\ b.ret # NoRef
           /\ (IF forwardingRef = NoRef THEN Len(b.types) = Len(types)
               ELSE b.madeBy[typeRefIndex(forwardingRef) + 1] = "forwarding")
        THEN {"hit"} ELSE {})
  \cup (IF wasSet THEN {"reset"} ELSE {})

\* the builder after a call that threads b
Returned(b, forwardingRef, wasSet) ==
  /\ Len(b.types) <= MaxTypes
  /\ types' = b.types
  /\ typeAttributes' = b.attrs
  /\ typeForIdentity' = b.tfi
  /\ addedForwardingIntersection' = b.fwd
  /\ madeBy' = b.madeBy
  /\ lastCall' = [ok |-> b.ok, case |-> CallCase(b, forwardingRef, wasSet)]
  /\ UNCHANGED <<topLevels, stringTypeMapping, addProvenanceAttributes, allPropertiesOptional, typeGraph>>
  /\ UNCHANGED otherVars

ReserveTypeRef ==
  Returned(reserveTypeRef(Builder), NoRef, FALSE)

GetPrimitiveType ==
  \E kind \in PrimitiveKindInputs, ref \in ForwardingRefInputs :
    Returned(getPrimitiveType(Builder, kind, None, ref), ref, FALSE)

GetStringType ==
  \E a \in AttributeInputs, st \in {"", "unrestricted"}, ref \in ForwardingRefInputs :
    Returned(getStringType(Builder, a, st, ref), ref, FALSE)

GetArrayType ==
  \E items \in ChildRefInputs, ref \in ForwardingRefInputs :
    Returned(getArrayType(Builder, emptyTypeAttributes, items, ref), ref, FALSE)

GetUniqueArrayType ==
  \E ref \in ForwardingRefInputs :
    Returned(getUniqueArrayType(Builder, ref), ref, FALSE)

SetArrayItem ==
  \E ref \in RefInputs, items \in ChildRefInputs :
    Returned(setArrayItem(Builder, ref, items), NoRef,
             derefTypeRef(Builder, ref).kind = "array" /\ derefTypeRef(Builder, ref).ref # NoRef)

GetClassType ==
  \E properties \in PropertyInputs, ref \in ForwardingRefInputs :
    Returned(getClassType(Builder, emptyTypeAttributes, properties, ref), ref, FALSE)

GetUniqueClassType ==
  \E properties \in {None} \cup {Some(p) : p \in PropertyInputs}, ref \in ForwardingRefInputs :
    Returned(getUniqueClassType(Builder, emptyTypeAttributes, FALSE, properties, ref), ref, FALSE)

SetObjectProperties ==
  \E ref \in RefInputs, properties \in PropertyInputs :
    Returned(setObjectProperties(Builder, ref, properties, NoRef), NoRef,
             derefTypeRef(Builder, ref).kind \in {"object", "map", "class"}
             /\ derefTypeRef(Builder, ref).properties # None)

GetUnionType ==
  \E members \in MemberInputs, ref \in ForwardingRefInputs :
    Returned(getUnionType(Builder, emptyTypeAttributes, members, ref), ref, FALSE)

GetUniqueUnionType ==
  \E members \in {None} \cup {Some(m) : m \in MemberInputs}, ref \in ForwardingRefInputs :
    Returned(getUniqueUnionType(Builder, emptyTypeAttributes, members, ref), ref, FALSE)

GetIntersectionType ==
  \E members \in MemberInputs, ref \in ForwardingRefInputs :
    Returned(getIntersectionType(Builder, emptyTypeAttributes, members, ref), ref, FALSE)

GetUniqueIntersectionType ==
  \E members \in {None} \cup {Some(m) : m \in MemberInputs}, ref \in ForwardingRefInputs :
    Returned(getUniqueIntersectionType(Builder, emptyTypeAttributes, members, ref), ref, FALSE)

SetSetOperationMembers ==
  \E ref \in RefInputs, members \in MemberInputs :
    Returned(setSetOperationMembers(Builder, ref, members), NoRef,
             derefTypeRef(Builder, ref).kind \in {"union", "intersection"}
             /\ derefTypeRef(Builder, ref).memberRefs # None)

AddAttributes ==
  \E ref \in RefInputs, a \in AttributeInputs :
    Returned(addAttributes(Builder, ref, a), NoRef, FALSE)

AddDescription ==
  \E ref \in RefInputs :
    Returned(addAttributes(Builder, ref, [k \in {"description"} |-> {"d"}]), NoRef, FALSE)

AddTopLevel ==
  \E name \in TopLevelNames, ref \in RefInputs :
    LET tl == addTopLevel(topLevels, Builder, name, ref)
    IN /\ topLevels' = IF tl = None THEN topLevels ELSE tl[1]
       /\ lastCall' = [ok |-> tl # None, case |-> {}]
       /\ UNCHANGED <<types, typeAttributes, typeForIdentity, addedForwardingIntersection, madeBy,
                      stringTypeMapping, addProvenanceAttributes, allPropertiesOptional, typeGraph>>
       /\ UNCHANGED otherVars

Finish ==
  LET g == finish(Builder, topLevels)
  IN /\ typeGraph' = IF g = None THEN typeGraph ELSE g
     /\ lastCall' = [ok |-> g # None, case |-> {}]
     /\ UNCHANGED <<types, typeAttributes, topLevels, typeForIdentity, addedForwardingIntersection,
                    madeBy, stringTypeMapping, addProvenanceAttributes, allPropertiesOptional>>
     /\ UNCHANGED otherVars

BuilderInit(configurations) ==
  /\ types = <<>>
  /\ typeAttributes = <<>>
  /\ topLevels = [n \in {} |-> NoRef]
  /\ typeForIdentity = [id \in {} |-> NoRef]
  /\ addedForwardingIntersection = FALSE
  /\ \E c \in configurations :
       /\ stringTypeMapping = c.stringTypeMapping
       /\ addProvenanceAttributes = c.addProvenanceAttributes
       /\ allPropertiesOptional = c.allPropertiesOptional
  /\ typeGraph = None
  /\ madeBy = <<>>
  /\ lastCall = [ok |-> TRUE, case |-> {}]

vars == <<builderVars, otherVars>>

\* The factory methods that deduplicate by identity, with the unique arrays
\* and intersections and their setters
Init == BuilderInit({DefaultConfiguration}) /\ OtherIdle
Next ==
  \/ ReserveTypeRef
  \/ GetPrimitiveType
  \/ GetStringType
  \/ GetArrayType
  \/ GetUniqueArrayType
  \/ SetArrayItem
  \/ GetIntersectionType
  \/ GetUniqueIntersectionType
  \/ SetSetOperationMembers
  \/ AddAttributes
Spec == Init /\ [][Next]_vars

\* The types with set-once fields and their setters
SetOnceInit == BuilderInit({DefaultConfiguration, OptionalConfiguration}) /\ OtherIdle
SetOnceNext ==
  \/ GetUniqueArrayType
  \/ GetArrayType
  \/ SetArrayItem
  \/ GetUniqueUnionType
  \/ GetUnionType
  \/ SetSetOperationMembers
  \/ GetUniqueClassType
  \/ GetClassType
  \/ SetObjectProperties
SetOnceSpec == SetOnceInit /\ [][SetOnceNext]_vars

\* A builder that is finished and used afterwards
FreezeInit == BuilderInit({DefaultConfiguration}) /\ OtherIdle
FreezeNext ==
  \/ GetPrimitiveType
  \/ GetUniqueArrayType
  \/ SetArrayItem
  \/ AddDescription
  \/ AddTopLevel
  \/ Finish
FreezeSpec == FreezeInit /\ [][FreezeNext]_vars

\* ------------------------------------------------------------------------
\* support: defined, repeated, repeatedCall.  Nodes and indexes are numbers
\* from 0; position i of a JavaScript array is position i + 1 of a sequence.
\* A function that fails fatally returns None, one that returns v, Some(v).
\* ------------------------------------------------------------------------
\* defined(x) returns x when `if (x)` holds, which a number does unless it
\* is 0, and panics otherwise
defined(x) == x # 0
repeated(n, value) == [i \in 1 .. n |-> value]
\* repeatedCall(n, () => []) fills the array with the one array that the
\* single call of the producer made
repeatedCall(n, shared) == [i \in 1 .. n |-> shared]

Min(a, b) == IF a < b THEN a ELSE b
RECURSIVE SortedSeq(_)
SortedSeq(S) ==
  IF S = {} THEN <<>>
  ELSE LET m == CHOOSE x \in S : \A y \in S : x <= y IN <<m>> \o SortedSeq(S \ {m})
RECURSIVE Flatten(_)
Flatten(seqs) == IF seqs = <<>> THEN <<>> ELSE Head(seqs) \o Flatten(Tail(seqs))
Range(seq) == {seq[i] : i \in DOMAIN seq}
\* Array.indexOf
indexOf(seq, x) ==
  IF x \in Range(seq) THEN (CHOOSE i \in DOMAIN seq : seq[i] = x /\ \A j \in 1 .. i - 1 : seq[j] # x) - 1
  ELSE -1

\* ------------------------------------------------------------------------
\* Graph (Graph.ts)
\* ------------------------------------------------------------------------
\* countComponentGraphNodes; -1 when one of its assertions fails
countComponentGraphNodes(components) ==
  IF Len(components) = 0 THEN 0
  ELSE LET all == Flatten(components)
           count == Len(all)
           largest == IF all = <<>> THEN -1
                      ELSE CHOOSE x \in Range(all) : \A y \in Range(all) : y <= x
       IN IF (\E c \in DOMAIN components : Len(components[c]) = 0)
             \/ (\E v \in Range(all) : v < 0)
             \/ largest + 1 # count
          THEN -1 ELSE count

RECURSIVE strongConnect(_, _, _), visitSuccessors(_, _, _, _), popComponent(_, _, _)
\* the do-while loop of strongConnect that pops the component of v
popComponent(st, v, scc) ==
  IF st.stack = <<>> \/ ~defined(st.stack[Len(st.stack)]) THEN [st EXCEPT !.ok = FALSE]
  ELSE LET w == st.stack[Len(st.stack)]
           st1 == [st EXCEPT !.stack = SubSeq(@, 1, Len(@) - 1), !.onStack[w + 1] = FALSE]
       IN IF w # v THEN popComponent(st1, v, Append(scc, w))
          ELSE [st1 EXCEPT !.sccs = Append(@, Append(scc, w))]

\* the loop of strongConnect over successor[v], from its k-th element
visitSuccessors(successor, st, v, k) ==
  IF ~st.ok \/ k > Len(successor[v + 1]) THEN st
  ELSE LET w == successor[v + 1][k]
           st1 == IF st.indexes[w + 1] < 0
                  THEN LET r == strongConnect(successor, st, w)
                       IN IF r.ok THEN [r EXCEPT !.lowLinks[v + 1] = Min(@, r.lowLinks[w + 1])]
                          ELSE r
                  ELSE IF st.onStack[w + 1]
                       THEN [st EXCEPT !.lowLinks[v + 1] = Min(@, st.indexes[w + 1])]
                       ELSE st
       IN visitSuccessors(successor, st1, v, k + 1)

strongConnect(successor, st, v) ==
  LET st1 == [st EXCEPT !.indexes[v + 1] = st.index, !.lowLinks[v + 1] = st.index,
                        !.index = @ + 1, !.stack = Append(@, v), !.onStack[v + 1] = TRUE]
      st2 == visitSuccessors(successor, st1, v, 1)
  IN IF ~st2.ok THEN st2
     ELSE IF st2.lowLinks[v + 1] = st2.indexes[v + 1] THEN popComponent(st2, v, <<>>)
     ELSE st2

RECURSIVE strongConnectFrom(_, _, _)
\* the loop of stronglyConnectedComponents over the nodes, from node v
strongConnectFrom(successor, st, v) ==
  IF ~st.ok \/ v >= Len(successor) THEN st
  ELSE strongConnectFrom(successor,
                         IF st.indexes[v + 1] < 0 THEN strongConnect(successor, st, v) ELSE st,
                         v + 1)

\* stronglyConnectedComponents (the function)
stronglyConnectedComponents(successor) ==
  LET numNodes == Len(successor)
      st == strongConnectFrom(successor,
                              [index |-> 0, stack |-> <<>>, indexes |-> repeated(numNodes, -1),
                               lowLinks |-> repeated(numNodes, -1),
                               onStack |-> repeated(numNodes, FALSE), sccs |-> <<>>, ok |-> TRUE],
                              0)
  IN IF ~st.ok \/ countComponentGraphNodes(st.sccs) # numNodes THEN None ELSE Some(st.sccs)

\* buildComponentOfNodeMap
buildComponentOfNodeMap(successor, components) ==
  IF Len(successor) # countComponentGraphNodes(components) THEN None
  ELSE IF \E c, d \in DOMAIN components :
            c # d /\ Range(components[c]) \cap Range(components[d]) # {}
       THEN None
  ELSE IF \E c \in DOMAIN components : Len(components[c]) # Cardinality(Range(components[c]))
       THEN None
  ELSE Some([n \in 1 .. Len(successor) |->
               (CHOOSE c \in DOMAIN components : n - 1 \in Range(components[c])) - 1])

RECURSIVE appendNew(_, _, _)
\* appends to succ, in order, the elements of candidates that are not c and
\* not in succ yet
appendNew(succ, candidates, c) ==
  IF candidates = <<>> THEN succ
  ELSE appendNew(IF Head(candidates) = c \/ Head(candidates) \in Range(succ) THEN succ
                 ELSE Append(succ, Head(candidates)),
                 Tail(candidates), c)

\* buildMetaSuccessor
buildMetaSuccessor(successors, components) ==
  LET componentOfNode == buildComponentOfNodeMap(successors, components)
  IN IF componentOfNode = None THEN None
     ELSE Some([c \in 1 .. Len(components) |->
                  appendNew(<<>>,
                            Flatten([i \in DOMAIN components[c] |->
                                       [j \in DOMAIN successors[components[c][i] + 1] |->
                                          componentOfNode[1][successors[components[c][i] + 1][j] + 1]]]),
                            c - 1)])

\* invertEdges: every element of predecessors is the same array
invertEdges(successors) ==
  repeatedCall(Len(successors),
               Flatten([s \in DOMAIN successors |-> [j \in DOMAIN successors[s] |-> s - 1]]))

\* calculateInDegrees
calculateInDegrees(successors) ==
  [v \in 1 .. Len(successors) |->
     Cardinality({<<s, j>> \in UNION {{<<s, j>> : j \in DOMAIN successors[s]} : s \in DOMAIN successors} :
                    successors[s][j] = v - 1})]

\* findRoots (the function)
findRoots(successors) ==
  SortedSeq({v \in 0 .. Len(successors) - 1 : calculateInDegrees(successors)[v + 1] = 0})

\* new Graph(nodes, invertDirection, edges) with an array of successor
\* indices
Graph(nodes, invertDirection, edgesArray) ==
  [nodes |-> nodes, successors |-> IF invertDirection THEN invertEdges(edgesArray) ELSE edgesArray]

\* new Graph(nodes, invertDirection, edges) with a function from a node to
\* its successor nodes (here: to their sequence); None when `defined` panics
GraphOfEdges(nodes, invertDirection, edges) ==
  LET edgesArray == [i \in DOMAIN nodes |->
                       [j \in DOMAIN edges[nodes[i]] |-> indexOf(nodes, edges[nodes[i]][j])]]
  IN IF \E i \in DOMAIN edgesArray : \E j \in DOMAIN edgesArray[i] :
          edgesArray[i][j] < 0 \/ ~defined(edgesArray[i][j])
     THEN None
     ELSE Some(Graph(nodes, invertDirection, edgesArray))

\* Graph.findRoots
GraphFindRoots(graph) ==
  LET roots == findRoots(graph.successors) IN [i \in DOMAIN roots |-> graph.nodes[roots[i] + 1]]

\* Graph.stronglyConnectedComponents (the method): the graph of the
\* components; a component is the sequence of its nodes
GraphStronglyConnectedComponents(graph) ==
  LET components == stronglyConnectedComponents(graph.successors)
      componentSuccessors ==
        IF components = None THEN None ELSE buildMetaSuccessor(graph.successors, components[1])
  IN IF componentSuccessors = None THEN None
     ELSE Some(Graph([c \in DOMAIN components[1] |->
                        [i \in DOMAIN components[1][c] |-> graph.nodes[components[1][c][i] + 1]]],
                     FALSE, componentSuccessors[1]))

RECURSIVE dfsVisit(_, _, _, _), dfsVisitAll(_, _, _, _)
\* the closure `visit` of dfsTraversal; st.calls are the nodes that process
\* is called with, in the order of the calls
dfsVisit(graph, preOrder, st, v) ==
  IF st.visited[v + 1] THEN st
  ELSE LET st1 == [st EXCEPT !.visited[v + 1] = TRUE,
                             !.calls = IF preOrder THEN Append(@, graph.nodes[v + 1]) ELSE @]
           st2 == dfsVisitAll(graph, preOrder, st1, graph.successors[v + 1])
       IN [st2 EXCEPT !.calls = IF preOrder THEN Append(@, graph.nodes[v + 1]) ELSE @]
dfsVisitAll(graph, preOrder, st, ws) ==
  IF ws = <<>> THEN st
  ELSE dfsVisitAll(graph, preOrder, dfsVisit(graph, preOrder, st, Head(ws)), Tail(ws))

\* Graph.dfsTraversal: the nodes that process is called with, in order;
\* None when `defined` panics
dfsTraversal(graph, root, preOrder) ==
  LET v == indexOf(graph.nodes, root)
  IN IF v < 0 \/ ~defined(v) THEN None
     ELSE Some(dfsVisit(graph, preOrder,
                        [visited |-> repeated(Len(graph.nodes), FALSE), calls |-> <<>>], v).calls)

\* ------------------------------------------------------------------------
\* Declarations (declarationsForGraph).  A type is its index; a set whose
\* order of iteration matters is the sequence of its elements.  env holds
\* the arguments: childrenOfType (per type, its children), needsDeclaration
\* (the types for which it holds) and canBeForwardDeclared (None when
\* undefined, else Some of the types for which it holds).
\* ------------------------------------------------------------------------
Declaration(kind, type) == [kind |-> kind, type |-> type]
Declare(st, kind, typeSeq) ==
  [st EXCEPT !.declarations = @ \o [i \in DOMAIN typeSeq |-> Declaration(kind, typeSeq[i])]]
Throw(st, error) == [st EXCEPT !.error = error]

\* TypeGraph.makeGraph(invertDirection, childrenOfType) (TypeGraph.ts,
\* modelled from the specification): the graph of all types with the
\* children as edges
makeGraph(env, invertDirection) ==
  GraphOfEdges([i \in DOMAIN env.childrenOfType |-> i - 1], invertDirection,
               [t \in 0 .. Len(env.childrenOfType) - 1 |-> SortedSeq(env.childrenOfType[t + 1])])

RECURSIVE processGraph(_, _, _), visitRoots(_, _, _, _), visitComponents(_, _, _), visitComponent(_, _, _)
\* visitComponent
visitComponent(env, st, component) ==
  IF component \in st.visitedComponents THEN st
  ELSE
    LET st1 == [st EXCEPT !.visitedComponents = @ \cup {component}]
        declarationNeeded == SelectSeq(component, LAMBDA t : t \in env.needsDeclaration)
    IN IF Len(declarationNeeded) = 1 THEN Declare(st1, "define", declarationNeeded)
       ELSE IF Len(declarationNeeded) = 0 /\ Len(component) = 1 THEN st1
       ELSE IF Len(declarationNeeded) = 0 THEN Declare(st1, "define", <<component[1]>>)
       ELSE IF env.canBeForwardDeclared = None THEN Declare(st1, "define", declarationNeeded)
       ELSE
         LET forwardDeclarable == SelectSeq(component, LAMBDA t : t \in env.canBeForwardDeclared[1])
             rest == SelectSeq(component, LAMBDA t : t \notin Range(forwardDeclarable))
             st2 == [Declare(st1, "forward", forwardDeclarable)
                       EXCEPT !.forwardedTypes = @ \cup Range(forwardDeclarable)]
             restGraph ==
               GraphOfEdges(rest, TRUE,
                            [t \in Range(rest) |->
                               SortedSeq(env.childrenOfType[t + 1] \cap Range(rest))])
             st3 == IF restGraph = None THEN Throw(st2, "InternalError")
                    ELSE processGraph(env, st2, restGraph[1])
         IN IF Len(forwardDeclarable) = 0 THEN Throw(st1, "IRNoForwardDeclarableTypeInCycle")
            ELSE IF st3.error # "" THEN st3
            ELSE Declare(st3, "define", forwardDeclarable)

\* the calls of visitComponent that one dfsTraversal makes
visitComponents(env, st, components) ==
  IF st.error # "" \/ components = <<>> THEN st
  ELSE visitComponents(env, visitComponent(env, st, Head(components)), Tail(components))

\* the loop of processGraph over the roots
visitRoots(env, st, componentGraph, roots) ==
  IF st.error # "" \/ roots = <<>> THEN st
  ELSE LET calls == dfsTraversal(componentGraph, Head(roots), env.canBeForwardDeclared = None)
       IN IF calls = None THEN Throw(st, "InternalError")
          ELSE visitRoots(env, visitComponents(env, st, calls[1]), componentGraph, Tail(roots))

\* processGraph
processGraph(env, st, graph) ==
  LET componentGraph == GraphStronglyConnectedComponents(graph)
  IN IF componentGraph = None THEN Throw(st, "InternalError")
     ELSE visitRoots(env, st, componentGraph[1], GraphFindRoots(componentGraph[1]))

\* declarationsForGraph: None when it throws, else Some of the DeclarationIR
declarationsForGraph(env) ==
  LET fullGraph == makeGraph(env, FALSE)
      st == IF fullGraph = None THEN Throw([error |-> ""], "InternalError")
            ELSE processGraph(env,
                              [declarations |-> <<>>, forwardedTypes |-> {},
                               visitedComponents |-> {}, error |-> ""],
                              fullGraph[1])
  IN IF st.error # "" THEN None
     ELSE Some([declarations |-> st.declarations, forwardedTypes |-> st.forwardedTypes])

\* ------------------------------------------------------------------------
\* breakCycles (TargetLanguage.ts).  chooseBreaker is one of the choosers
\* "first", "last" (that element of the cycle it is given) and "zero" (node
\* 0); the info it returns is the cycle it was given.
\* ------------------------------------------------------------------------
chooseBreaker(chooser, cycle) ==
  <<IF chooser = "first" THEN cycle[1] ELSE IF chooser = "last" THEN cycle[Len(cycle)] ELSE 0,
    cycle>>

\* outEdges[n].find((x) => !done[x]): -1 when find returns undefined
findNotDone(edges, done) ==
  IF \E j \in DOMAIN edges : ~done[edges[j] + 1]
  THEN edges[CHOOSE j \in DOMAIN edges :
               ~done[edges[j] + 1] /\ \A k \in 1 .. j - 1 : done[edges[k] + 1]]
  ELSE -1

RECURSIVE removeOutEdges(_, _), removeInEdges(_, _)
\* the first loop of removeNode, over the rest of outEdges[node]
removeOutEdges(st, edges) ==
  IF ~st.ok \/ edges = <<>> THEN st
  ELSE LET n == Head(edges)
       IN IF ~(st.inDegree[n + 1] > 0) THEN [st EXCEPT !.ok = FALSE]
          ELSE removeOutEdges([st EXCEPT !.inDegree[n + 1] = @ - 1,
                                         !.workList = IF st.inDegree[n + 1] = 1
                                                      THEN Append(@, n) ELSE @],
                              Tail(edges))
\* the second loop of removeNode, over the rest of inEdges[node]
removeInEdges(st, edges) ==
  IF ~st.ok \/ edges = <<>> THEN st
  ELSE LET n == Head(edges)
       IN IF ~(st.outDegree[n + 1] > 0) THEN [st EXCEPT !.ok = FALSE]
          ELSE removeInEdges([st EXCEPT !.outDegree[n + 1] = @ - 1,
                                        !.workList = IF st.outDegree[n + 1] = 1
                                                     THEN Append(@, n) ELSE @],
                             Tail(edges))

\* removeNode
removeNode(outEdges, inEdges, st, node) ==
  LET st1 == removeInEdges(removeOutEdges(st, outEdges[node + 1]), inEdges[node + 1])
  IN IF st1.ok THEN [st1 EXCEPT !.done[node + 1] = TRUE] ELSE st1

RECURSIVE findCycle(_, _, _, _, _, _)
\* the inner loop of breakCycles, which walks from n along path.  It does
\* not end when the edge it finds leads to the start of the path and the
\* first edge of the start that is not done leads to the start itself:
\* every round then pushes the start again.
findCycle(outEdges, inEdges, chooser, st, path, n) ==
  LET maybeEdge == findNotDone(outEdges[n + 1], st.done)
      maybeFirst == indexOf(path, maybeEdge)
      cycle == IF maybeFirst < 0 THEN <<path[Len(path)]>>
               ELSE SubSeq(path, maybeFirst + 1, Len(path))
      chosen == chooseBreaker(chooser, cycle)
      st1 == removeNode(outEdges, inEdges, st, chosen[1])
  IN IF maybeEdge < 0 \/ maybeEdge = 0 THEN [st EXCEPT !.ok = FALSE]
     ELSE IF maybeFirst = 0
     THEN (IF findNotDone(outEdges[maybeEdge + 1], st.done) = maybeEdge
           THEN [st EXCEPT !.diverges = TRUE]
           ELSE findCycle(outEdges, inEdges, chooser, st, Append(path, maybeEdge), maybeEdge))
     ELSE IF indexOf(cycle, chosen[1]) < 0 THEN [st EXCEPT !.ok = FALSE]
     ELSE IF ~st1.ok THEN st1
     ELSE [st1 EXCEPT !.ret = Append(@, chosen)]

RECURSIVE breakCyclesLoop(_, _, _, _)
\* the outer loop of breakCycles
breakCyclesLoop(outEdges, inEdges, chooser, st) ==
  IF ~st.ok \/ st.diverges THEN st
  ELSE
    LET popped == st.workList # <<>>
        i == IF popped THEN st.workList[Len(st.workList)] ELSE -1
        st1 == IF popped THEN [st EXCEPT !.workList = SubSeq(@, 1, Len(@) - 1)] ELSE st
        n == indexOf(st1.done, FALSE)
    IN IF popped /\ i # 0
       THEN (IF st1.done[i + 1] \/ (st1.inDegree[i + 1] = 0 /\ st1.outDegree[i + 1] = 0)
             THEN breakCyclesLoop(outEdges, inEdges, chooser, [st1 EXCEPT !.done[i + 1] = TRUE])
             ELSE IF ~(st1.inDegree[i + 1] = 0 \/ st1.outDegree[i + 1] = 0)
             THEN [st1 EXCEPT !.ok = FALSE]
             ELSE breakCyclesLoop(outEdges, inEdges, chooser, removeNode(outEdges, inEdges, st1, i)))
       ELSE IF n < 0 THEN st1
       ELSE breakCyclesLoop(outEdges, inEdges, chooser,
                            findCycle(outEdges, inEdges, chooser, st1, <<n>>, n))

\* breakCycles: what it returns (ret), whether it returns (ok) and whether
\* it runs forever (diverges)
breakCycles(outEdges, chooser) ==
  LET numNodes == Len(outEdges)
      inEdges == [n \in 1 .. numNodes |->
                    SelectSeq([i \in 1 .. numNodes |-> i - 1],
                              LAMBDA i : n - 1 \in Range(outEdges[i + 1]))]
      inDegree == [n \in 1 .. numNodes |-> Len(inEdges[n])]
      outDegree == [n \in 1 .. numNodes |-> Len(outEdges[n])]
      workList == SelectSeq([i \in 1 .. numNodes |-> i - 1],
                            LAMBDA i : inDegree[i + 1] = 0 \/ outDegree[i + 1] = 0)
  IN breakCyclesLoop(outEdges, inEdges, chooser,
                     [inDegree |-> inDegree, outDegree |-> outDegree,
                      done |-> repeated(numNodes, FALSE), workList |-> workList,
                      ret |-> <<>>, ok |-> TRUE, diverges |-> FALSE])

\* ------------------------------------------------------------------------
\* Naming (part_006).  A configuration cfg holds the namespaces in the
\* order of NamingContext.namespaces: cfg.members[ns] is the sequence of the
\* names added to namespace ns, cfg.forbiddenNamespaces[ns] the namespaces
\* it forbids, cfg.additionalForbidden[ns] its additional forbidden names.
\* A name is identified by <<ns, k>>, the k-th member of namespace ns.  The
\* map of the assigned names is a function from these to strings.
\* ------------------------------------------------------------------------
Namer(name, nameStyle, prefixes) ==
  [name |-> name, nameStyle |-> nameStyle, prefixes |-> prefixes]
NoNamer == Namer("", "", <<>>)
Name(kind, namingFunction, order, fixedName, unstyleNames, sponsor, dependsOn) ==
  [kind |-> kind, namingFunction |-> namingFunction, order |-> order,
   fixedName |-> fixedName, unstyleNames |-> unstyleNames, sponsor |-> sponsor,
   dependsOn |-> dependsOn]
FixedName(fixedName) == Name("fixed", NoNamer, 0, fixedName, <<>>, 0, <<>>)
SimpleName(unstyleNames, namingFunction, order) ==
  Name("simple", namingFunction, order, "", unstyleNames, 0, <<>>)
\* the DependencyName whose proposer looks up the names dependsOn, in this
\* order: the constructor runs the proposer once and keeps what it looked up
DependencyName(namingFunction, order, dependsOn) ==
  Name("dependency", namingFunction, order, "", <<>>, 0, dependsOn)
\* the associated name of the sponsor that is member number sponsor of the
\* same namespace, added to it with addAssociate
AssociatedName(sponsor, order) == Name("associated", NoNamer, order, "", <<>>, sponsor, <<>>)

\* the nameStyle functions of the namers: "upper" writes the a of a name in
\* upper case, "plain" leaves a name as it is
nameStyle(style, rawName) ==
  IF style = "upper"
  THEN CASE rawName = "a" -> "A"
         [] rawName = "Purple_a" -> "Purple_A"
         [] rawName = "a_1" -> "A_1"
         [] rawName = "a_2" -> "A_2"
         [] OTHER -> rawName
  ELSE rawName
\* the getName function of the associated names
getName(sponsorName) == sponsorName \o "Enum"

nameAt(cfg, n) == cfg.members[n[1]][n[2]]
\* Namespace.members
members(cfg, ns) == {<<ns, k>> : k \in DOMAIN cfg.members[ns]}
membersInOrder(cfg, ns) == [k \in DOMAIN cfg.members[ns] |-> <<ns, k>>]
\* forbiddenNameds without the members of the forbidden namespaces: what
\* the naming would use if a namespace forbade nothing but its
\* additionalForbidden
forbiddenNamedsAdditionalOnly(cfg, ns) == cfg.additionalForbidden[ns]
\* Namespace.forbiddenNameds
forbiddenNameds(cfg, ns) ==
  cfg.additionalForbidden[ns] \cup UNION {members(cfg, f) : f \in cfg.forbiddenNamespaces[ns]}
\* Name.dependencies
dependencies(cfg, n) ==
  IF nameAt(cfg, n).kind = "associated" THEN {<<n[1], nameAt(cfg, n).sponsor>>}
  ELSE Range(nameAt(cfg, n).dependsOn)
\* the associates of a name, in the order of addAssociate
associates(cfg, n) ==
  SelectSeq(membersInOrder(cfg, n[1]),
            LAMBDA a : nameAt(cfg, a).kind = "associated" /\ nameAt(cfg, a).sponsor = n[2])

\* the proposer of the dependency names: the strings it looked up, joined,
\* and "Item" after them
RECURSIVE proposeUnstyledName(_)
proposeUnstyledName(found) ==
  IF found = <<>> THEN "Item" ELSE Head(found) \o proposeUnstyledName(Tail(found))
\* Name.proposeUnstyledNames: None when it panics, which it does for a fixed
\* and an associated name and when a dependency name looks up a name that
\* names does not hold, else the proposals in their order
proposeUnstyledNames(cfg, names, n) ==
  IF nameAt(cfg, n).kind = "simple" THEN Some(nameAt(cfg, n).unstyleNames)
  ELSE IF nameAt(cfg, n).kind = "dependency"
          /\ Range(nameAt(cfg, n).dependsOn) \subseteq DOMAIN names
  THEN Some(<<proposeUnstyledName([i \in DOMAIN nameAt(cfg, n).dependsOn |->
                                     names[nameAt(cfg, n).dependsOn[i]]])>>)
  ELSE None

\* Name.nameAssignments: None for null, else the pairs of the map
RECURSIVE associateAssignments(_, _, _, _)
associateAssignments(rest, forbiddenNames, assignName, assignments) ==
  IF rest = <<>> THEN Some(assignments)
  ELSE IF getName(assignName) \in forbiddenNames THEN None
  ELSE associateAssignments(Tail(rest), forbiddenNames, assignName,
                            Append(assignments, <<Head(rest), getName(assignName)>>))
nameAssignments(cfg, n, forbiddenNames, assignName) ==
  IF assignName \in forbiddenNames THEN None
  ELSE associateAssignments(associates(cfg, n), forbiddenNames, assignName, <<<<n, assignName>>>>)

\* the strings of a sequence of assignments
assignedValues(assigned) == {assigned[i][2] : i \in DOMAIN assigned}

\* the test of a proposed name without the other names of namesToAssign: a
\* proposed name counts as unique whenever its styled form is not forbidden
isUniqueNameIgnoringOthers(cfg, names, namesToAssign, name, forbiddenNames, propose) ==
  nameStyle(nameAt(cfg, name).namingFunction.nameStyle, propose) \notin forbiddenNames
\* the test that Namer.assignNames hands to iterableFind: the styled form
\* of propose is not forbidden and no other name of namesToAssign proposes it
isUniqueName(cfg, names, namesToAssign, name, forbiddenNames, propose) ==
  /\ nameStyle(nameAt(cfg, name).namingFunction.nameStyle, propose) \notin forbiddenNames
  /\ \A n \in Range(namesToAssign) :
       n = name \/ propose \notin Range(proposeUnstyledNames(cfg, names, n)[1])

\* the first loop of Namer.assignNames over the rest of namesToAssign; it
\* fails when the proposeUnstyledNames of a name panics
RECURSIVE assignUnique(_, _, _, _, _)
assignUnique(cfg, names, namesToAssign, rest, st) ==
  IF ~st.ok \/ rest = <<>> THEN st
  ELSE
    LET name == Head(rest)
        proposedNames == proposeUnstyledNames(cfg, names, name)[1]
        style == nameAt(cfg, name).namingFunction.nameStyle
        unique(propose) ==
          isUniqueName(cfg, names, namesToAssign, name, st.forbiddenNames, propose)
        found == \E i \in DOMAIN proposedNames : unique(proposedNames[i])
        maybeUniqueName ==
          proposedNames[CHOOSE i \in DOMAIN proposedNames :
                          unique(proposedNames[i]) /\ \A j \in 1 .. i - 1 : ~unique(proposedNames[j])]
        assigned == IF found
                    THEN nameAssignments(cfg, name, st.forbiddenNames, nameStyle(style, maybeUniqueName))
                    ELSE None
    IN IF \E n \in Range(namesToAssign) : proposeUnstyledNames(cfg, names, n) = None
       THEN [st EXCEPT !.ok = FALSE]
       ELSE IF assigned # None
       THEN assignUnique(cfg, names, namesToAssign, Tail(rest),
                         [st EXCEPT !.allAssignNames = @ \o assigned[1],
                                    !.forbiddenNames = @ \cup assignedValues(assigned[1])])
       ELSE assignUnique(cfg, names, namesToAssign, Tail(rest),
                         [st EXCEPT !.namesToPrefix = Append(@, name)])

\* the inner loop of the second loop of Namer.assignNames: tries the next
\* prefix, and numbered suffixes when the prefixes are used up, until
\* nameAssignments accepts the name
RECURSIVE assignPrefixed(_, _, _, _, _)
assignPrefixed(cfg, names, namer, name, st) ==
  LET orignalName == proposeUnstyledNames(cfg, names, name)[1][1]
      done == st.prefixes = <<>>
      nameToTry == IF ~done THEN Head(st.prefixes) \o "_" \o orignalName
                   ELSE orignalName \o "_" \o ToString(st.suffixNumber)
      st1 == IF ~done THEN [st EXCEPT !.prefixes = Tail(@)]
             ELSE [st EXCEPT !.suffixNumber = @ + 1]
      styledName == nameStyle(nameAt(cfg, name).namingFunction.nameStyle, nameToTry)
      assigned == nameAssignments(cfg, name, st.forbiddenNames, styledName)
  IN IF assigned = None THEN assignPrefixed(cfg, names, namer, name, st1)
     ELSE [st1 EXCEPT !.allAssignNames = @ \o assigned[1],
                      !.forbiddenNames = @ \cup assignedValues(assigned[1])]

\* the second loop of Namer.assignNames over the rest of namesToPrefix
RECURSIVE assignAllPrefixed(_, _, _, _, _)
assignAllPrefixed(cfg, names, namer, rest, st) ==
  IF ~st.ok \/ rest = <<>> THEN st
  ELSE IF proposeUnstyledNames(cfg, names, Head(rest))[1] = <<>> THEN [st EXCEPT !.ok = FALSE]
  ELSE assignAllPrefixed(cfg, names, namer, Tail(rest),
                         assignPrefixed(cfg, names, namer, Head(rest), st))

\* Namer.assignNames: None when it fails, else the pairs of allAssignNames
NamerAssignNames(cfg, namer, names, forbiddenNameIterable, namesToAssign) ==
  LET first == assignUnique(cfg, names, namesToAssign, namesToAssign,
                            [forbiddenNames |-> forbiddenNameIterable, allAssignNames |-> <<>>,
                             namesToPrefix |-> <<>>, prefixes |-> namer.prefixes,
                             suffixNumber |-> 1, ok |-> namesToAssign # <<>>])
      st == assignAllPrefixed(cfg, names, namer, first.namesToPrefix, first)
  IN IF st.ok THEN Some(st.allAssignNames) ELSE None

\* a readiness that looks at the name alone: every name without a string
\* counts as ready, whatever its dependencies
isReadyIgnoringDependencies(cfg, names, named) == named \notin DOMAIN names
\* NamingContext.isReadyToBeNamed
isReadyToBeNamed(cfg, names, named) ==
  named \notin DOMAIN names /\ dependencies(cfg, named) \subseteq DOMAIN names
\* NamingContext.areForbiddensFullyNamed
areForbiddensFullyNamed(cfg, names, ns) == forbiddenNameds(cfg, ns) \subseteq DOMAIN names
\* NamingContext.isConflicting; the names that have the string proposed are
\* the set that _namedsForName holds for it
isConflicting(cfg, names, namedNamespace, proposed) ==
  \E n \in {m \in DOMAIN names : names[m] = proposed} :
    n \in members(cfg, namedNamespace) \/ n \in forbiddenNameds(cfg, namedNamespace)
\* NamingContext.assign.  ctx.trace is the history of the context: an
\* "assign" for every name that assign gave a string, a "ready" for the
\* names that are asked for their namingFunction and first proposal, and a
\* "batch" for the names handed to Namer.assignNames
assign(cfg, ctx, named, namedNamespace, name) ==
  IF ~ctx.ok THEN ctx
  ELSE IF named \in DOMAIN ctx.names \/ isConflicting(cfg, ctx.names, namedNamespace, name)
  THEN [ctx EXCEPT !.ok = FALSE]
  ELSE [ctx EXCEPT !.names = (named :> name) @@ @,
                   !.trace = Append(@, [op |-> "assign", nameds |-> <<named>>])]

\* the first loop of assignNames, over the rest of the members of ns and
\* then the namespaces after it
RECURSIVE assignFixedNames(_, _, _, _)
assignFixedNames(cfg, ctx, ns, k) ==
  IF ns > Len(cfg.members) THEN ctx
  ELSE IF k > Len(cfg.members[ns]) THEN assignFixedNames(cfg, ctx, ns + 1, 1)
  ELSE IF nameAt(cfg, <<ns, k>>).kind # "fixed" THEN assignFixedNames(cfg, ctx, ns, k + 1)
  ELSE assignFixedNames(cfg, assign(cfg, ctx, <<ns, k>>, ns, nameAt(cfg, <<ns, k>>).fixedName),
                        ns, k + 1)

\* ctx.assign for the rest of the pairs that Namer.assignNames returned
RECURSIVE assignAll(_, _, _, _)
assignAll(cfg, ctx, readyNamespace, rest) ==
  IF rest = <<>> THEN ctx
  ELSE assignAll(cfg, assign(cfg, ctx, Head(rest)[1], readyNamespace, Head(rest)[2]),
                 readyNamespace, Tail(rest))

\* setGroupBy: the keys in the order in which they first appear
RECURSIVE groupKeys(_, _)
groupKeys(keys, seen) ==
  IF keys = <<>> THEN seen
  ELSE groupKeys(Tail(keys), IF Head(keys) \in Range(seen) THEN seen ELSE Append(seen, Head(keys)))

firstProposeStyled(cfg, names, n) ==
  nameStyle(nameAt(cfg, n).namingFunction.nameStyle, proposeUnstyledNames(cfg, names, n)[1][1])

\* the loop over the groups of names with the same styled first proposal
RECURSIVE assignProposed(_, _, _, _, _, _)
assignProposed(cfg, st, readyNamespace, namer, namedForNamingFunction, propose) ==
  IF ~st.ctx.ok \/ propose = <<>> THEN st
  ELSE
    LET nameds == SelectSeq(namedForNamingFunction,
                            LAMBDA n : firstProposeStyled(cfg, st.ctx.names, n) = Head(propose))
        names == NamerAssignNames(cfg, namer, st.ctx.names, st.forbiddenNames, nameds)
        handed == [st.ctx EXCEPT !.trace = Append(@, [op |-> "batch", nameds |-> nameds])]
    IN IF names = None THEN [st EXCEPT !.ctx = [handed EXCEPT !.ok = FALSE]]
       ELSE assignProposed(cfg,
                           [ctx |-> assignAll(cfg, handed, readyNamespace, names[1]),
                            forbiddenNames |-> st.forbiddenNames \cup assignedValues(names[1])],
                           readyNamespace, namer, namedForNamingFunction, Tail(propose))

\* the loop over the namers of the ready names of the least order
RECURSIVE assignByNamingFunction(_, _, _, _, _)
assignByNamingFunction(cfg, st, readyNamespace, readyNames, namers) ==
  IF ~st.ctx.ok \/ namers = <<>> THEN st
  ELSE
    LET namedForNamingFunction ==
          SelectSeq(readyNames, LAMBDA n : nameAt(cfg, n).namingFunction = Head(namers))
        propose == groupKeys([i \in DOMAIN namedForNamingFunction |->
                                firstProposeStyled(cfg, st.ctx.names,
                                                   namedForNamingFunction[i])], <<>>)
    IN assignByNamingFunction(cfg,
         assignProposed(cfg, st, readyNamespace, Head(namers), namedForNamingFunction, propose),
         readyNamespace, readyNames, Tail(namers))

\* the inner loop of assignNames for the namespace readyNamespace; the
\* namingFunction of a name without namer, and the first proposal of a name
\* without proposals, are not defined
RECURSIVE assignReadyNames(_, _, _)
assignReadyNames(cfg, st, readyNamespace) ==
  LET allReadyNames == SelectSeq(membersInOrder(cfg, readyNamespace),
                                 LAMBDA n : isReadyToBeNamed(cfg, st.ctx.names, n))
      minOrder == CHOOSE o \in {nameAt(cfg, n).order : n \in Range(allReadyNames)} :
                    \A n \in Range(allReadyNames) : o <= nameAt(cfg, n).order
      readyNames == SelectSeq(allReadyNames, LAMBDA n : nameAt(cfg, n).order = minOrder)
      namers == groupKeys([i \in DOMAIN readyNames |-> nameAt(cfg, readyNames[i]).namingFunction],
                          <<>>)
      asked == [st EXCEPT !.ctx.trace = Append(@, [op |-> "ready", nameds |-> readyNames])]
  IN IF ~st.ctx.ok \/ allReadyNames = <<>> THEN st
     ELSE IF \E n \in Range(readyNames) :
               \/ nameAt(cfg, n).namingFunction = NoNamer
               \/ proposeUnstyledNames(cfg, st.ctx.names, n) \in {None, Some(<<>>)}
     THEN [asked EXCEPT !.ctx.ok = FALSE]
     ELSE assignReadyNames(cfg,
                           assignByNamingFunction(cfg, asked, readyNamespace, readyNames, namers),
                           readyNamespace)

\* the outer loop of assignNames
RECURSIVE assignNamesLoop(_, _)
assignNamesLoop(cfg, ctx) ==
  LET isReady(ns) == /\ areForbiddensFullyNamed(cfg, ctx.names, ns)
                     /\ \E n \in members(cfg, ns) : isReadyToBeNamed(cfg, ctx.names, n)
      readyNamespace == CHOOSE ns \in DOMAIN cfg.members :
                          isReady(ns) /\ \A other \in 1 .. ns - 1 : ~isReady(other)
      allForbiddenNames == members(cfg, readyNamespace) \cup forbiddenNameds(cfg, readyNamespace)
      forbiddenNames == {ctx.names[n] : n \in allForbiddenNames \cap DOMAIN ctx.names}
  IN IF ~ctx.ok \/ ~\E ns \in DOMAIN cfg.members : isReady(ns) THEN ctx
     ELSE assignNamesLoop(cfg, assignReadyNames(cfg, [ctx |-> ctx, forbiddenNames |-> forbiddenNames],
                                                readyNamespace).ctx)

\* the NamingContext when assignNames has returned or failed
assignNamesContext(cfg) ==
  assignNamesLoop(cfg, assignFixedNames(cfg, [names |-> <<>>, ok |-> TRUE, trace |-> <<>>], 1, 1))
\* assignNames: None when it fails, else the map of the names
assignNames(cfg) ==
  LET ctx == assignNamesContext(cfg)
  IN IF ctx.ok THEN Some(ctx.names) ELSE None

\* ------------------------------------------------------------------------
\* Building unions (Constraints.ts, TypeAttributes, UnionAccumulator and
\* UnionBuilder).  A MinMaxConstraint is the pair of a minimum and a
\* maximum, each None when it is undefined.  A function that can throw
\* returns a record whose ok is FALSE when it throws.
\* ------------------------------------------------------------------------
Max(a, b) == IF a > b THEN a ELSE b
\* the elements of a set of kinds as a sequence
RECURSIVE SortedKinds(_)
SortedKinds(S) ==
  IF S = {} THEN <<>>
  ELSE LET k == CHOOSE x \in S : TRUE IN <<k>> \o SortedKinds(S \ {k})
\* !x for a number or undefined
falsy(x) == x = None \/ x = Some(0)
\* checkMinMaxConstraint: value is None when it returns undefined
checkMinMaxConstraint(minmax) ==
  LET min == minmax[1]
      max == minmax[2]
  IN IF min # None /\ max # None /\ min[1] > max[1] THEN [ok |-> FALSE, value |-> None]
     ELSE IF falsy(min) /\ falsy(max) THEN [ok |-> TRUE, value |-> None]
     ELSE [ok |-> TRUE, value |-> Some(minmax)]

\* the loop of MinMaxConstraintTypeAttributeKind.combine from index i on
RECURSIVE minMaxCombineLoop(_, _, _, _)
minMaxCombineLoop(arr, i, min, max) ==
  IF i > Len(arr) THEN <<min, max>>
  ELSE
    LET otherMin == arr[i][1]
        otherMax == arr[i][2]
        min1 == IF min # None /\ otherMin # None THEN Some(Min(min[1], otherMin[1])) ELSE None
        bothMax == max # None /\ otherMax # None
    IN minMaxCombineLoop(arr, i + 1,
                         IF bothMax THEN min1 ELSE None,
                         IF bothMax THEN Some(Max(max[1], otherMax[1])) ELSE max)
\* MinMaxConstraintTypeAttributeKind.combine
minMaxCombine(arr) ==
  IF Len(arr) = 0 THEN [ok |-> FALSE, value |-> None]
  ELSE checkMinMaxConstraint(minMaxCombineLoop(arr, 1, arr[1][1], arr[1][2]))

\* StringTypes (part_005): cases is None when the string is unrestricted
StringTypes(cases, transformations) == [cases |-> cases, transformations |-> transformations]
StringTypesUnrestricted == StringTypes(None, {})
\* StringTypesTypeAttributeKind.combine, attrs[0].union(attrs, 1): an
\* unrestricted first or later value is returned as it is; the loop starts
\* at the first value and merges the cases of a value into the set of the
\* transformations, which has no get and fails for a value with cases
stringTypesUnion(attrs) ==
  LET restricted == {i \in DOMAIN attrs : attrs[i].cases # None}
      firstUnrestricted == CHOOSE i \in DOMAIN attrs : i \notin restricted /\ 1 .. i - 1 \subseteq restricted
  IN IF restricted = DOMAIN attrs
     THEN [ok |-> \A i \in DOMAIN attrs : attrs[i].cases = Some({}),
           value |-> Some(StringTypes(attrs[1].cases,
                                      UNION {attrs[i].transformations : i \in DOMAIN attrs}))]
     ELSE [ok |-> \A i \in 1 .. firstUnrestricted - 1 : attrs[i].cases = Some({}),
           value |-> Some(attrs[firstUnrestricted])]
\* kind.combine of the other kinds, from index i on
RECURSIVE combineValuesFrom(_, _, _, _)
combineValuesFrom(k, attrs, i, acc) ==
  IF i > Len(attrs) THEN acc ELSE combineValuesFrom(k, attrs, i + 1, combineValues(k, acc, attrs[i]))
\* the function combine of combineTypeAttributes for the values attrs of
\* the kind k: the constant union is "union", so kind.combine is called
\* whatever the combination kind is
combineOfKind(k, attrs) ==
  IF Len(attrs) = 1 THEN [ok |-> TRUE, value |-> Some(attrs[1])]
  ELSE IF k = "minMax" THEN minMaxCombine(attrs)
  ELSE IF k = "stringTypes" THEN stringTypesUnion(attrs)
  ELSE [ok |-> TRUE, value |-> Some(combineValuesFrom(k, attrs, 2, attrs[1]))]
\* combineTypeAttributes(kind, attributesArray): mapTranspose collects the
\* values of every kind in the order of the array, and mapFilterMap drops
\* the kinds whose combination is undefined
combineTypeAttributesArray(attributesArray) ==
  LET kinds == UNION {DOMAIN attributesArray[i] : i \in DOMAIN attributesArray}
      having(k) == SelectSeq(attributesArray, LAMBDA a : k \in DOMAIN a)
      valuesOf(k) == [i \in DOMAIN having(k) |-> having(k)[i][k]]
      combined == [k \in kinds |-> combineOfKind(k, valuesOf(k))]
  IN [ok |-> \A k \in kinds : combined[k].ok,
      value |-> [k \in {x \in kinds : combined[x].value # None} |-> combined[k].value[1]]]

\* UnionAccumulator: the two attribute map builders map a kind to the
\* array of the attributes added for it
NewUnionAccumulator ==
  [nonStringTypeAttributes |-> [k \in {} |-> <<>>], stringTypeAttributes |-> [k \in {} |-> <<>>],
   lostTypeAttributes |-> FALSE, ok |-> TRUE, enumCases |-> {}]
\* addAttributesToBuilder
addAttributesToBuilder(builder, kind, newAttributes) ==
  [k \in DOMAIN builder \cup {kind} |->
     IF k = kind THEN Append(IF k \in DOMAIN builder THEN builder[k] ELSE <<>>, newAttributes)
     ELSE builder[k]]
\* UnionAccumulator.addAny
addAny(acc, attributes) ==
  [acc EXCEPT !.nonStringTypeAttributes = addAttributesToBuilder(@, "any", attributes),
              !.lostTypeAttributes = TRUE]
\* UnionAccumulator.addPrimitive
addPrimitive(acc, kind, attributes) ==
  IF kind = "any" THEN [acc EXCEPT !.ok = FALSE]
  ELSE [acc EXCEPT !.nonStringTypeAttributes = addAttributesToBuilder(@, kind, attributes)]
\* UnionAccumulator.addStringType for a transformed string kind, without
\* string types
addStringType(acc, kind, attributes) ==
  [acc EXCEPT !.stringTypeAttributes = addAttributesToBuilder(@, kind, attributes)]
\* UnionAccumulator.addFullStringType; stringTypes is None when undefined
addFullStringType(acc, attributes, stringTypes) ==
  LET found == IF stringTypes # None THEN stringTypes
               ELSE IF "stringTypes" \in DOMAIN attributes THEN Some(attributes["stringTypes"])
               ELSE None
      used == IF found = None THEN StringTypesUnrestricted ELSE found[1]
      stringTypesAttributes ==
        IF stringTypes # None \/ found = None THEN Some([k \in {"stringTypes"} |-> used])
        ELSE None
      added == addAttributesToBuilder(acc.stringTypeAttributes, "string", attributes)
  IN IF used.cases # None /\ "enum" \in DOMAIN acc.nonStringTypeAttributes
     THEN [acc EXCEPT !.ok = FALSE]
     ELSE IF stringTypesAttributes = None THEN [acc EXCEPT !.stringTypeAttributes = added]
     ELSE [acc EXCEPT !.stringTypeAttributes =
                        addAttributesToBuilder(added, "string", stringTypesAttributes[1])]
\* UnionAccumulator.addEnum
addEnum(acc, cases, attributes) ==
  IF "string" \in DOMAIN acc.stringTypeAttributes
  THEN [acc EXCEPT !.stringTypeAttributes = addAttributesToBuilder(@, "string", attributes)]
  ELSE [acc EXCEPT !.nonStringTypeAttributes = addAttributesToBuilder(@, "enum", attributes),
                   !.enumCases = @ \cup cases]
\* UnionAccumulator.addArray: the attributes (the array data is the ref of
\* the items)
addArray(acc, attributes) ==
  [acc EXCEPT !.nonStringTypeAttributes = addAttributesToBuilder(@, "array", attributes)]
\* UnionAccumulator.have
have(acc, kind) ==
  kind \in DOMAIN acc.nonStringTypeAttributes \/ kind \in DOMAIN acc.stringTypeAttributes
\* buildTypeAttributeMap
buildTypeAttributeMap(builder) ==
  [ok |-> \A k \in DOMAIN builder : combineTypeAttributesArray(builder[k]).ok,
   value |-> [k \in DOMAIN builder |-> combineTypeAttributesArray(builder[k]).value]]
\* moveAttributes, with setAttributes and addAttributes
moveAttributes(map, fromKind, toKind) ==
  LET fromAttributes == map[fromKind]
      set == IF toKind \in DOMAIN map
             THEN combineTypeAttributesArray(<<map[toKind], fromAttributes>>)
             ELSE [ok |-> TRUE, value |-> fromAttributes]
  IN [ok |-> set.ok,
      value |-> [k \in (DOMAIN map \ {fromKind}) \cup {toKind} |->
                   IF k = toKind THEN set.value ELSE map[k]]]
\* UnionAccumulator.getMemberKinds: the map of the kinds of the members to
\* their attributes
getMemberKinds(acc, conflateNumbers) ==
  With(buildTypeAttributeMap(acc.nonStringTypeAttributes), LAMBDA nonString :
  With(buildTypeAttributeMap(acc.stringTypeAttributes), LAMBDA string :
  With([k \in DOMAIN nonString.value \cup DOMAIN string.value |->
          IF k \in DOMAIN string.value THEN string.value[k] ELSE nonString.value[k]],
       LAMBDA merged :
    IF ~acc.ok \/ (have(acc, "enum") /\ have(acc, "string")) \/ ~nonString.ok \/ ~string.ok
    THEN [ok |-> FALSE, value |-> <<>>]
    ELSE IF DOMAIN merged = {} THEN [ok |-> TRUE, value |-> [k \in {"none"} |-> emptyTypeAttributes]]
    ELSE IF "any" \in DOMAIN acc.nonStringTypeAttributes
    THEN With(SortedKinds(DOMAIN merged), LAMBDA ks :
         With(combineTypeAttributesArray([i \in DOMAIN ks |-> merged[ks[i]]]),
              LAMBDA allAttributes :
           IF ~acc.lostTypeAttributes \/ ~allAttributes.ok THEN [ok |-> FALSE, value |-> <<>>]
           ELSE [ok |-> TRUE, value |-> [k \in {"any"} |-> allAttributes.value]]))
    ELSE With(IF conflateNumbers /\ have(acc, "integer") /\ have(acc, "double")
              THEN moveAttributes(merged, "integer", "double")
              ELSE [ok |-> TRUE, value |-> merged], LAMBDA conflated :
           IF conflated.ok /\ have(acc, "map")
           THEN moveAttributes(conflated.value, "map", "class")
           ELSE conflated))))

\* UnionBuilder.makeTypeOfKind for the kinds that no object or array data
\* stands behind.  For an array the union builder of flattenUnions calls
\* getArrayType or getUnionType with the refs of the original graph that its
\* callback returns (FlattenUnions.ts 22-28), which their assertions reject.
makeTypeOfKind(b, kind, attributes, forwardngRef) ==
  IF kind = "string" THEN getStringType(b, attributes, "", forwardngRef)
  ELSE IF isPrimitiveTypeKind(kind) THEN getPrimitiveType(b, kind, Some(attributes), forwardngRef)
  ELSE Failed(b)
\* the loop of buildUnion over the kinds: st.types collects the refs
RECURSIVE makeTypesOfKinds(_, _, _)
makeTypesOfKinds(st, kinds, rest) ==
  IF ~st.b.ok \/ rest = <<>> THEN st
  ELSE With(makeTypeOfKind(st.b, Head(rest), kinds[Head(rest)], NoRef), LAMBDA b1 :
         makeTypesOfKinds([b |-> b1, types |-> st.types \cup {b1.ret}], kinds, Tail(rest)))
\* UnionBuilder.buildUnion with unique = false
buildUnion(b, acc, conflateNumbers, attributes, forwardingRef) ==
  With(getMemberKinds(acc, conflateNumbers), LAMBDA kinds :
    IF ~kinds.ok THEN Failed(b)
    ELSE IF Cardinality(DOMAIN kinds.value) = 1
    THEN With(CHOOSE k \in DOMAIN kinds.value : TRUE, LAMBDA kind :
         With(combineTypeAttributesArray(<<attributes, kinds.value[kind]>>),
              LAMBDA allAttributes :
           IF ~allAttributes.ok THEN Failed(b)
           ELSE makeTypeOfKind(b, kind, allAttributes.value, forwardingRef)))
    ELSE With(makeTypesOfKinds([b |-> b, types |-> {}], kinds.value,
                               SortedKinds(DOMAIN kinds.value)), LAMBDA made :
           IF ~made.b.ok THEN made.b
           ELSE getUnionType(made.b, attributes, made.types, forwardingRef)))

\* ------------------------------------------------------------------------
\* Resolving intersections (part_007): the object properties of the
\* IntersectionAccumulator.  A member type is a record with its kind; an
\* object has the map of its properties and its additional properties,
\* which are None when it has none.  A type is named by its kind.
\* ------------------------------------------------------------------------
GenericClassProperty(typeData, isOptional) == [typeData |-> typeData, isOptional |-> isOptional]
\* the accumulator as its constructor leaves it
\* #arrayItemTypes is undefined, false or a set of item types: arrayItemTypes
\* says which, and holds the set; #primitiveTypes is None while undefined
NewIntersectionAccumulator ==
  [objectProperties |-> Some([n \in {} |-> GenericClassProperty({}, FALSE)]),
   addtionalPropertyTypes |-> Some({}), lostTypeAttributes |-> FALSE, ok |-> TRUE,
   arrayItemTypes |-> [is |-> "undefined", items |-> {}],
   arrayAttributes |-> emptyTypeAttributes,
   primitiveTypes |-> None, primitiveAttributes |-> <<>>,
   objectAttributes |-> emptyTypeAttributes]
\* the first object type of memberTypes, None when there is none
findObject(memberTypes) ==
  LET objects == SelectSeq(memberTypes, LAMBDA t : t.kind = "object")
  IN IF objects = <<>> THEN None ELSE Some(objects[1])
\* updateObjectProperies as it would be if a property of one side only
\* were always kept
updateObjectProperiesKeeping(acc, memberTypes) ==
  LET maybeObject == findObject(memberTypes)
      new == maybeObject[1].properties
      old == acc.objectProperties[1]
  IN IF maybeObject = None \/ acc.objectProperties = None
     THEN [acc EXCEPT !.objectProperties = None, !.addtionalPropertyTypes = None]
     ELSE [acc EXCEPT !.objectProperties =
             Some([n \in DOMAIN old \cup DOMAIN new |->
                     IF n \in DOMAIN old /\ n \in DOMAIN new
                     THEN GenericClassProperty(old[n].typeData \cup {new[n].type},
                                               old[n].isOptional /\ new[n].isOptional)
                     ELSE IF n \in DOMAIN old THEN old[n]
                     ELSE GenericClassProperty({new[n].type}, new[n].isOptional)])]
\* IntersectionAccumulator.updateObjectProperies
updateObjectProperies(acc, memberTypes) ==
  LET maybeObject == findObject(memberTypes)
      objectAdditionalPropeites == maybeObject[1].additional
      new == maybeObject[1].properties
      old == acc.objectProperties[1]
      allPropertyNames == DOMAIN old \cup DOMAIN new
      kept == {n \in allPropertyNames :
                 \/ n \in DOMAIN old /\ n \in DOMAIN new
                 \/ n \in DOMAIN old /\ objectAdditionalPropeites # None
                 \/ n \notin DOMAIN old /\ n \in DOMAIN new /\ acc.addtionalPropertyTypes # None}
      property(n) ==
        IF n \in DOMAIN old /\ n \in DOMAIN new
        THEN GenericClassProperty(old[n].typeData \cup {new[n].type},
                                  old[n].isOptional /\ new[n].isOptional)
        ELSE IF n \in DOMAIN old
        THEN GenericClassProperty(old[n].typeData \cup {objectAdditionalPropeites[1]},
                                  old[n].isOptional)
        ELSE GenericClassProperty(acc.addtionalPropertyTypes[1] \cup {new[n].type},
                                  new[n].isOptional)
      acc1 == [acc EXCEPT !.objectProperties = Some([n \in kept |-> property(n)])]
  IN IF maybeObject = None
     THEN [acc EXCEPT !.objectProperties = None, !.addtionalPropertyTypes = None]
     ELSE IF acc.objectProperties = None
     THEN [acc EXCEPT !.ok = acc.addtionalPropertyTypes = None]
     ELSE IF acc.addtionalPropertyTypes # None /\ objectAdditionalPropeites # None
     THEN [acc1 EXCEPT !.addtionalPropertyTypes = Some(@[1] \cup {objectAdditionalPropeites[1]})]
     ELSE IF acc.addtionalPropertyTypes # None \/ objectAdditionalPropeites # None
     THEN [acc1 EXCEPT !.addtionalPropertyTypes = None, !.lostTypeAttributes = TRUE]
     ELSE acc1
\* IntersectionAccumulator.addType for the members of an intersection that
\* are no unions, one after the other: each is a union set of its own
RECURSIVE addIntersectionTypes(_, _)
addIntersectionTypes(acc, rest) ==
  IF ~acc.ok \/ rest = <<>> THEN acc
  ELSE addIntersectionTypes(updateObjectProperies(acc, <<Head(rest)>>), Tail(rest))
\* combineTypeAttributes("intersect", a, b): the function overwrites its
\* combination kind with "union" before it looks at it
combineIntersect(acc, a, b) == combineTypeAttributesArray(<<a, b>>)
\* IntersectionAccumulator.updatePrimitiveTypes
updatePrimitiveTypes(acc, memberTypes) ==
  LET primitives == SelectSeq(memberTypes, LAMBDA t : isPrimitiveTypeKind(t.kind))
      kinds == {primitives[i].kind : i \in DOMAIN primitives}
      last(k) == CHOOSE i \in DOMAIN primitives :
                   primitives[i].kind = k /\ \A j \in i + 1 .. Len(primitives) : primitives[j].kind # k
      merged(k) == IF k \notin kinds THEN [ok |-> TRUE, value |-> acc.primitiveAttributes[k]]
                   ELSE IF k \notin DOMAIN acc.primitiveAttributes
                   THEN [ok |-> TRUE, value |-> primitives[last(k)].attributes]
                   ELSE combineIntersect(acc, acc.primitiveAttributes[k],
                                         primitives[last(k)].attributes)
      all == DOMAIN acc.primitiveAttributes \cup kinds
      haveNumber == /\ \E k \in acc.primitiveTypes[1] : isNumberTypeKind(k)
                    /\ \E k \in kinds : isNumberTypeKind(k)
      common == acc.primitiveTypes[1] \cap kinds
  IN With([k \in all |-> merged(k)], LAMBDA m :
     With([acc EXCEPT !.primitiveAttributes = [k \in all |-> m[k].value],
                      !.ok = \A k \in all : m[k].ok], LAMBDA acc1 :
       IF acc.primitiveTypes = None THEN [acc1 EXCEPT !.primitiveTypes = Some(kinds)]
       ELSE IF haveNumber /\ ~\E k \in common : isNumberTypeKind(k)
       THEN [acc1 EXCEPT !.primitiveTypes = Some(common \cup {"integer"})]
       ELSE [acc1 EXCEPT !.primitiveTypes = Some(common)]))
\* IntersectionAccumulator.updateArrayItemTypes: `!this.#arrayItemTypes`
\* holds for undefined and for false
updateArrayItemTypes(acc, memberTypes) ==
  LET arrays == SelectSeq(memberTypes, LAMBDA t : t.kind = "array")
      maybeArray == arrays[1]
  IN IF arrays = <<>> THEN [acc EXCEPT !.arrayItemTypes = [is |-> "false", items |-> {}]]
     ELSE With(combineIntersect(acc, acc.arrayAttributes, maybeArray.attributes),
               LAMBDA combined :
            IF ~combined.ok THEN [acc EXCEPT !.ok = FALSE]
            ELSE IF acc.arrayItemTypes.is \in {"undefined", "false"}
            THEN [acc EXCEPT !.arrayAttributes = combined.value,
                             !.arrayItemTypes = [is |-> "set", items |-> {}]]
            ELSE [acc EXCEPT !.arrayAttributes = combined.value,
                             !.arrayItemTypes.items = @ \cup {maybeArray.items}])
\* IntersectionAccumulator.addUnionSet; the attributes of the first object
\* of the members are combined into #objectAttributes
addUnionSet(acc, memberTypes) ==
  With(updatePrimitiveTypes(acc, memberTypes), LAMBDA acc0 :
  With(updateArrayItemTypes(acc0, memberTypes), LAMBDA acc1 :
  With(findObject(memberTypes), LAMBDA maybeObject :
    IF ~acc1.ok THEN acc1
    ELSE IF maybeObject = None THEN updateObjectProperies(acc1, memberTypes)
    ELSE With(combineIntersect(acc, acc.objectAttributes, maybeObject[1].attributes),
              LAMBDA combined :
           IF ~combined.ok THEN [acc1 EXCEPT !.ok = FALSE]
           ELSE updateObjectProperies([acc1 EXCEPT !.objectAttributes = combined.value],
                                      memberTypes)))))
\* IntersectionAccumulator.addType for the rest of the members of an
\* intersection, each given as the sequence of its alternatives: the
\* members of a union, or the type itself
RECURSIVE addUnionSets(_, _)
addUnionSets(acc, rest) ==
  IF ~acc.ok \/ rest = <<>> THEN acc
  ELSE addUnionSets(addUnionSet(acc, Head(rest)), Tail(rest))
\* IntersectionAccumulator.getMembersKinds after the members were added:
\* None when a call failed, which getMembersKinds does while
\* #primitiveTypes is undefined
getMembersKinds(unionSets) ==
  With(addUnionSets(NewIntersectionAccumulator, unionSets), LAMBDA acc :
    LET primitive == acc.primitiveTypes[1]
        withDouble == /\ "double" \in DOMAIN acc.primitiveAttributes
                      /\ "double" \notin primitive /\ "integer" \in primitive
        array == IF acc.arrayItemTypes.is = "set" THEN {"array"} ELSE {}
        object == IF acc.objectProperties # None THEN {"object"} ELSE {}
    IN IF ~acc.ok \/ acc.primitiveTypes = None THEN None
       ELSE With(IF "integer" \notin primitive THEN [ok |-> TRUE, value |-> <<>>]
                 ELSE IF withDouble
                 THEN combineIntersect(acc, acc.primitiveAttributes["integer"],
                                       acc.primitiveAttributes["double"])
                 ELSE [ok |-> TRUE, value |-> acc.primitiveAttributes["integer"]],
                 LAMBDA integer :
              IF ~integer.ok THEN None
              ELSE Some([k \in primitive \cup array \cup object |->
                           IF k = "array" THEN acc.arrayAttributes
                           ELSE IF k = "object" THEN acc.objectAttributes
                           ELSE IF k = "integer" THEN integer.value
                           ELSE acc.primitiveAttributes[k]])))

\* IntersectionAccumulator.objectData after the members were added: None
\* when a call failed
objectData(memberTypes) ==
  LET acc == addIntersectionTypes(NewIntersectionAccumulator, memberTypes)
  IN IF ~acc.ok THEN None
     ELSE Some([objectProperties |-> acc.objectProperties,
                addtionalPropertyTypes |-> acc.addtionalPropertyTypes])

\* ------------------------------------------------------------------------
\* Transformers (Transformers.ts).  A transformer is a record of its kind,
\* its sourceTypeRef, its consumer (producer transformers; None when it is
\* undefined), its transformer (match transformers) and its memberTypeRef.
\* ------------------------------------------------------------------------
Transformer(kind, sourceTypeRef, consumer, transformer, memberTypeRef) ==
  [kind |-> kind, sourceTypeRef |-> sourceTypeRef, consumer |-> consumer,
   transformer |-> transformer, memberTypeRef |-> memberTypeRef]
DecodingTransformer(sourceTypeRef, consumer) ==
  Transformer("decode", sourceTypeRef, consumer, None, NoRef)
EncodingTransformer(sourceTypeRef) == Transformer("encode", sourceTypeRef, None, None, NoRef)
ParseStringTransformer(sourceTypeRef, consumer) ==
  Transformer("parse-string", sourceTypeRef, consumer, None, NoRef)
StringifyTransformer(sourceTypeRef, consumer) ==
  Transformer("stringify", sourceTypeRef, consumer, None, NoRef)
UnionInstantiationTransformer(sourceTypeRef) ==
  Transformer("union-instantiation", sourceTypeRef, None, None, NoRef)
UnionMemberMatchTransformer(sourceTypeRef, transformer, memberTypeRef) ==
  Transformer("union-member-match", sourceTypeRef, None, Some(transformer), memberTypeRef)
ProducerKinds == {"decode", "parse-string", "stringify"}

\* Transformer.canFail
canFail(t) == t.kind \in {"parse-string", "union-member-match"}

\* reverse that answers every kind with the transformer itself
reverseAsIs(t, targetTypeRef, continuationTransformer) == Some(t)
\* Transformer.reverse: None when it panics
RECURSIVE reverse(_, _, _)
reverse(t, targetTypeRef, continuationTransformer) ==
  CASE t.kind = "decode" ->
         IF continuationTransformer # None THEN None
         ELSE IF t.consumer = None THEN Some(EncodingTransformer(targetTypeRef))
         ELSE reverse(t.consumer[1], targetTypeRef,
                      Some(EncodingTransformer(t.consumer[1].sourceTypeRef)))
    [] t.kind = "parse-string" ->
         IF t.consumer = None
         THEN Some(StringifyTransformer(targetTypeRef, continuationTransformer))
         ELSE reverse(t.consumer[1], targetTypeRef,
                      Some(StringifyTransformer(t.consumer[1].sourceTypeRef, continuationTransformer)))
    [] t.kind = "stringify" ->
         IF t.consumer = None
         THEN Some(ParseStringTransformer(targetTypeRef, continuationTransformer))
         ELSE reverse(t.consumer[1], targetTypeRef,
                      Some(ParseStringTransformer(t.consumer[1].sourceTypeRef, continuationTransformer)))
    [] t.kind = "union-instantiation" ->
         IF continuationTransformer = None THEN None
         ELSE Some(UnionMemberMatchTransformer(targetTypeRef, continuationTransformer[1],
                                               t.sourceTypeRef))
    [] OTHER -> None

\* Transformer.equals with the overrides of the classes
RECURSIVE equals(_, _)
equals(t, other) ==
  /\ t.sourceTypeRef = other.sourceTypeRef
  /\ other.kind = t.kind
  /\ t.kind \in ProducerKinds =>
       IF t.consumer = None \/ other.consumer = None THEN t.consumer = other.consumer
       ELSE equals(t.consumer[1], other.consumer[1])
  /\ t.kind = "union-member-match" =>
       /\ equals(t.transformer[1], other.transformer[1])
       /\ t.memberTypeRef = other.memberTypeRef

\* t.reverse(target).reverse(source), where source is the source of t
roundTrip(t, targetTypeRef) ==
  LET reversed == reverse(t, targetTypeRef, None)
  IN IF reversed = None THEN None ELSE reverse(reversed[1], t.sourceTypeRef, None)

\* ------------------------------------------------------------------------
\* Rewriting a graph (EnumValues.ts: BaseGraphRewriteBuilder and
\* GraphRewriteBuilder).  The rewrite builder rb is the builder record with
\* the original graph (the types and attributes at its indexes, its
\* top-levels), reconstitutedTypes, #setsToReplaceByMember,
\* #reconstituedUnions, the replacer and the number of its calls per set.
\* The refs of the original graph are those of OtherGraph.
\* ------------------------------------------------------------------------
mapGet(m, k) == IF k \in DOMAIN m THEN m[k] ELSE NoRef
mapSet(m, k, v) == [x \in DOMAIN m \cup {k} |-> IF x = k THEN v ELSE m[x]]

\* typeAndAttributesForTypeRef(ref, originalGraph), its type
originalTypeOf(original, ref) == original.types[typeRefIndex(ref) + 1]

\* the loop of the constructor of GraphRewriteBuilder over setsToReplace:
\* #setsToReplaceByMember, keyed by t.index; None when its assertion fails
newSetsToReplaceByMember(original, setsToReplace) ==
  LET entries == UNION {{<<s, t>> : t \in setsToReplace[s]} : s \in DOMAIN setsToReplace}
      key(e) == TypeIndex(originalTypeOf(original, e[2]))
  IN IF \E e, f \in entries : e # f /\ key(e) = key(f) THEN None
     ELSE Some([i \in {key(e) : e \in entries} |->
                  setsToReplace[(CHOOSE e \in entries : key(e) = i)[1]]])

\* BaseGraphRewriteBuilder.assertTypeRefsToReconstitute
assertTypeRefsToReconstitute(typeRefs, forwardingRef) ==
  /\ Len(typeRefs) > 0
  /\ \A i \in DOMAIN typeRefs : typeRefs[i].graph = OtherGraph
  /\ forwardingRef # NoRef => assertTypeRefGraph(forwardingRef)

\* setOperationMembersRecursively of a union: the members that are no unions
RECURSIVE setOperationMembersRecursively(_, _)
setOperationMembersRecursively(original, ref) ==
  LET t == originalTypeOf(original, ref)
  IN IF t.kind = "union"
     THEN UNION {setOperationMembersRecursively(original, m) : m \in t.memberRefs[1]}
     ELSE {ref}

\* TypeRefUnionAccumulator.addTypes for the types of the original graph under
\* refs, which have no attributes: matchTypeExhaustive adds a string with
\* addPrimitive, a transformed string with addStringType, an array with
\* addArray
RECURSIVE addOriginalTypes(_, _, _)
addOriginalTypes(acc, original, refs) ==
  IF refs = <<>> THEN acc
  ELSE LET kind == originalTypeOf(original, Head(refs)).kind
           added == IF kind = "array" THEN addArray(acc, emptyTypeAttributes)
                    ELSE IF kind \in TransformedStringTypeKinds
                    THEN addStringType(acc, kind, emptyTypeAttributes)
                    ELSE addPrimitive(acc, kind, emptyTypeAttributes)
       IN addOriginalTypes(added, original, Tail(refs))

\* the types of a group in the order of the array that makeGroupToFlatten
\* made of it: the single member first, then the unions
groupTypeRefs(original, group) ==
  LET rank(r) == (IF originalTypeOf(original, r).kind = "union" THEN Len(original.types) ELSE 0)
                   + typeRefIndex(r)
      ranks == SortedSeq({rank(r) : r \in group})
  IN [i \in DOMAIN ranks |-> CHOOSE r \in group : rank(r) = ranks[i]]

RECURSIVE reconstituteTypeRef(_, _, _, _)
RECURSIVE lookupTypeRefs(_, _, _, _)
\* unifyTypes (UnifyClasses.ts) with the union builder of flattenUnions
unifyTypes(rb, typesToUnify, attributes, conflateNumbers, maybeForwardingRef) ==
  IF typesToUnify = {} THEN Failed(rb)
  ELSE
  With(groupTypeRefs(rb.original, typesToUnify), LAMBDA typeRefs :
    IF Cardinality(typesToUnify) = 1 /\ originalTypeOf(rb.original, typeRefs[1]).kind # "union"
    THEN reconstituteTypeRef(rb, typeRefs[1], Some(attributes), maybeForwardingRef)
    ELSE
    With(lookupTypeRefs(rb, typeRefs, maybeForwardingRef, TRUE), LAMBDA maybeTypeRef :
      IF ~maybeTypeRef.ok THEN maybeTypeRef
      ELSE IF maybeTypeRef.ret # NoRef
      THEN With(addAttributes(maybeTypeRef, maybeTypeRef.ret, attributes), LAMBDA added :
             IF added.ok THEN [added EXCEPT !.ret = maybeTypeRef.ret] ELSE added)
      ELSE
      \* accumulator.addTypes, then withForwardingRef: registerUnion and
      \* buildUnion at the ref
      With(UNION {setOperationMembersRecursively(rb.original, t) : t \in typesToUnify},
           LAMBDA leaves :
      With(addOriginalTypes(NewUnionAccumulator, rb.original,
                            groupTypeRefs(rb.original, leaves)), LAMBDA accumulator :
      With(IF maybeForwardingRef # NoRef THEN maybeTypeRef ELSE reserveTypeRef(maybeTypeRef),
           LAMBDA rb1 :
      With(IF maybeForwardingRef # NoRef THEN maybeForwardingRef ELSE rb1.ret, LAMBDA ref :
        IF Range(typeRefs) \in DOMAIN rb1.reconstituedUnions THEN Failed(rb1)
        ELSE With(buildUnion([rb1 EXCEPT !.reconstituedUnions = mapSet(@, Range(typeRefs), ref)],
                             accumulator, conflateNumbers, attributes, ref), LAMBDA built :
               IF ~built.ok THEN built
               ELSE IF built.ret # ref THEN Failed(built)
               ELSE built)))))))

\* the replacer that the client gave to the constructor: it builds the
\* string type or a unique class at the forwarding ref, or it is the
\* function replace of flattenUnions
replacer(rb, typesToReplace, ref) ==
  IF rb.replacer = "string" THEN getPrimitiveType(rb, "string", None, ref)
  ELSE IF rb.replacer = "flatten"
  THEN unifyTypes(rb, typesToReplace, emptyTypeAttributes, rb.conflateNumbers, ref)
  ELSE getUniqueClassType(rb, emptyTypeAttributes, TRUE, None, ref)

\* GraphRewriteBuilder.replaceSet with withForwardingRef; maybe is NoRef
\* when it is undefined
replaceSet(rb, typeToReplace, maybe) ==
  With(IF maybe # NoRef THEN rb ELSE reserveTypeRef(rb), LAMBDA rb1 :
  With(IF maybe # NoRef THEN maybe ELSE rb1.ret, LAMBDA ref :
  With({typeRefIndex(t) : t \in typeToReplace}, LAMBDA indexes :
  With([rb1 EXCEPT
          !.reconstitutedTypes = [i \in DOMAIN @ \cup indexes |->
                                    IF i \in indexes THEN ref ELSE @[i]],
          !.setsToReplaceByMember = [k \in DOMAIN @ \ indexes |-> @[k]],
          !.replacerCalls = mapSet(@, typeToReplace,
                                   IF typeToReplace \in DOMAIN @ THEN @[typeToReplace] + 1
                                   ELSE 1)], LAMBDA rb2 :
  With(replacer(rb2, typeToReplace, ref), LAMBDA rb3 :
    IF ~rb3.ok THEN rb3
    ELSE IF rb3.ret # ref THEN Failed(rb3)
    ELSE rb3)))))

\* GraphRewriteBuilder.lookupTypeRefs; ret is NoRef when it returns undefined
lookupTypeRefs(rb, typeRefs, ref, replace) ==
  IF ~assertTypeRefsToReconstitute(typeRefs, ref) THEN Failed(rb)
  ELSE LET reconstituted(i) == mapGet(rb.reconstitutedTypes, typeRefIndex(typeRefs[i]))
           maybe == reconstituted(1)
           union == mapGet(rb.reconstituedUnions, Range(typeRefs))
           setOf(i) == IF typeRefIndex(typeRefs[i]) \in DOMAIN rb.setsToReplaceByMember
                       THEN Some(rb.setsToReplaceByMember[typeRefIndex(typeRefs[i])])
                       ELSE None
           maybeSet == setOf(1)
       IN IF maybe # NoRef /\ maybe # ref /\ (\A i \in DOMAIN typeRefs : reconstituted(i) = maybe)
          THEN forwardIfNecessary(rb, ref, maybe)
          ELSE IF union # NoRef /\ union # ref THEN forwardIfNecessary(rb, ref, union)
          ELSE IF maybeSet = None THEN [rb EXCEPT !.ret = NoRef]
          ELSE IF \E i \in 2 .. Len(typeRefs) : setOf(i) # maybeSet THEN [rb EXCEPT !.ret = NoRef]
          ELSE IF ~replace THEN [rb EXCEPT !.ret = NoRef]
          ELSE replaceSet(rb, maybeSet[1], ref)

\* the callback that forceReconstituteTypeRef gives to the TypeReconstituter,
\* called by TypeReconstituter.register with the ref of the new type
registerReconstituted(rb, index, maybe) ==
  IF ~rb.ok THEN rb
  ELSE IF maybe # NoRef /\ rb.ret # maybe THEN Failed(rb)
  ELSE LET alreadyReconstitutedType == mapGet(rb.reconstitutedTypes, index)
       IN IF alreadyReconstitutedType = NoRef
          THEN [rb EXCEPT !.reconstitutedTypes = mapSet(@, index, rb.ret)]
          ELSE IF rb.ret # alreadyReconstitutedType THEN Failed(rb)
          ELSE rb

\* the member refs of a set operation type in the order of sortedMembers
sortedMembersRefs(original, t) ==
  LET kinds == <<"array", "date", "string", "union">>
      rank(r) == (indexOf(kinds, originalTypeOf(original, r).kind) + 1) * (Len(original.types) + 1)
                   + typeRefIndex(r)
      ranks == SortedSeq({rank(r) : r \in t.memberRefs[1]})
  IN [i \in DOMAIN ranks |-> CHOOSE r \in t.memberRefs[1] : rank(r) = ranks[i]]

\* TypeReconstituter.reconstituteMap: the refs one after the other
RECURSIVE reconstituteMap(_, _, _)
reconstituteMap(rb, refs, reconstitued) ==
  IF refs = <<>> \/ ~rb.ok THEN [b |-> rb, refs |-> reconstitued]
  ELSE With(reconstituteTypeRef(rb, Head(refs), None, NoRef), LAMBDA r :
         reconstituteMap(r, Tail(refs),
                         IF r.ok THEN reconstitued \cup {r.ret} ELSE reconstitued))

\* GraphRewriteBuilder.forceReconstituteTypeRef with the TypeReconstituter
\* and the reconstitute methods of the types (part_001): a primitive type
\* gets its kind from the builder; ArrayType.reconstitute has no statement,
\* so that getResult panics; a union looks its members up and either gets
\* the union of them or a unique union whose members it then reconstitutes
forceReconstituteTypeRef(rb, originalRef, attributes, maybe) ==
  LET index == typeRefIndex(originalRef)
      originalType == originalTypeOf(rb.original, originalRef)
      originalAttributes == rb.original.typeAttributes[index + 1]
      combined == IF attributes = None THEN originalAttributes
                  ELSE combineTypeAttributes(attributes[1], originalAttributes)
  IN IF originalType.kind = "array" THEN Failed(rb)
     ELSE IF originalType.kind = "union"
     THEN With(sortedMembersRefs(rb.original, originalType), LAMBDA memberRefs :
          With([i \in DOMAIN memberRefs |->
                  lookupTypeRefs(rb, <<memberRefs[i]>>, NoRef, FALSE).ret], LAMBDA maybes :
            IF \A i \in DOMAIN maybes : maybes[i] # NoRef
            THEN registerReconstituted(getUnionType(rb, combined, Range(maybes), maybe),
                                       index, maybe)
            ELSE
            With(registerReconstituted(getUniqueUnionType(rb, combined, None, maybe),
                                       index, maybe), LAMBDA u :
              IF ~u.ok THEN u
              ELSE
              With(reconstituteMap(u, memberRefs, {}), LAMBDA m :
                IF ~m.b.ok THEN m.b
                ELSE With(setSetOperationMembers(m.b, u.ret, m.refs), LAMBDA set :
                       IF ~set.ok THEN set ELSE [set EXCEPT !.ret = u.ret])))))
     ELSE registerReconstituted(getPrimitiveType(rb, originalType.kind, Some(combined), maybe),
                                index, maybe)

\* BaseGraphRewriteBuilder.reconstituteTypeRef; attributes is None and maybe
\* is NoRef when they are undefined
reconstituteTypeRef(rb, originalRef, attributes, maybe) ==
  With(lookupTypeRefs(rb, <<originalRef>>, maybe, TRUE), LAMBDA maybeRef :
    IF ~maybeRef.ok THEN maybeRef
    ELSE IF maybeRef.ret # NoRef
    THEN (IF attributes = None THEN maybeRef
          ELSE With(addAttributes(maybeRef, maybeRef.ret, attributes[1]), LAMBDA added :
                 IF added.ok THEN [added EXCEPT !.ret = maybeRef.ret] ELSE added))
    ELSE forceReconstituteTypeRef(maybeRef, originalRef, attributes, maybe))

\* the loop of BaseGraphRewriteBuilder.finish over the top-levels of the
\* original graph, in the order names; tl is the top-levels of the builder
RECURSIVE reconstituteTopLevels(_, _, _)
reconstituteTopLevels(rb, tl, names) ==
  IF names = <<>> THEN [b |-> rb, topLevels |-> tl]
  ELSE With(reconstituteTypeRef(rb, rb.original.topLevels[Head(names)], None, NoRef),
            LAMBDA r :
       With(IF r.ok THEN addTopLevel(tl, r, Head(names), r.ret) ELSE None, LAMBDA added :
         IF added = None THEN [b |-> Failed(r), topLevels |-> tl]
         ELSE reconstituteTopLevels(r, added[1], Tail(names))))

\* the kinds of the members of a union, one element per member
memberKindsOf(allTypes, t) ==
  LET refs == SortedSeq({typeRefIndex(m) : m \in t.memberRefs[1]})
  IN [i \in DOMAIN refs |-> allTypes[refs[i] + 1].kind]

\* makeGroupToFlatten: the unions with equal members, with the member if it
\* is a single one, as a sequence of groups
makeGroupToFlatten(original, setOperations) ==
  LET membersOf(u) == setOperationMembersRecursively(original, u)
      groupOf(u) == {v \in setOperations : membersOf(v) = membersOf(u)}
                      \cup (IF Cardinality(membersOf(u)) = 1 THEN membersOf(u) ELSE {})
      firsts == SortedSeq({typeRefIndex(u) : u \in {v \in setOperations :
                   \A w \in groupOf(v) \cap setOperations : typeRefIndex(v) <= typeRefIndex(w)}})
  IN [i \in DOMAIN firsts |-> groupOf(makeTypeRef(OtherGraph, firsts[i]))]

\* flattenUnions (FlattenUnions.ts) on a graph without intersections, with
\* TypeGraph.rewrite (TypeGraph.ts, modelled from the specification: it
\* constructs the GraphRewriteBuilder for the groups and finishes it).
\* needRepeat is set only by the callback of the union builder, whose
\* result the builder rejects, so that it is false when the function returns
flattenUnions(b, original, conflateNumbers) ==
  LET refs == {makeTypeRef(OtherGraph, i - 1) : i \in DOMAIN original.types}
      allUnions == {r \in refs : originalTypeOf(original, r).kind = "union"}
      nonCanonicalUinons ==
        {u \in allUnions : ~isCanonical(memberKindsOf(original.types, originalTypeOf(original, u)))}
      foundIntersection == FALSE
      groups == makeGroupToFlatten(original, nonCanonicalUinons)
      names == SelectSeq(<<"T", "U">>, LAMBDA n : n \in DOMAIN original.topLevels)
  IN With(newSetsToReplaceByMember(original, groups), LAMBDA byMember :
       IF byMember = None THEN [ok |-> FALSE, b |-> b, graph |-> None, stable |-> FALSE]
       ELSE
       With(b @@ [original |-> original, replacer |-> "flatten",
                  conflateNumbers |-> conflateNumbers,
                  reconstitutedTypes |-> <<>>, setsToReplaceByMember |-> byMember[1],
                  reconstituedUnions |-> <<>>, replacerCalls |-> <<>>], LAMBDA rb :
       With(reconstituteTopLevels(rb, [n \in {} |-> NoRef], names), LAMBDA r :
       With(IF r.b.ok THEN finish(r.b, r.topLevels) ELSE None, LAMBDA g :
         [ok |-> g # None, b |-> r.b, graph |-> g, stable |-> ~foundIntersection]))))

\* ------------------------------------------------------------------------
\* The JSON schema store (part_009).  A JSONSchema is a boolean or a string
\* map; Undefined is the value of a missing entry and of a fetch without a
\* schema; Rejects is the outcome of a fetch whose promise rejects.
\* ------------------------------------------------------------------------
Undefined == "undefined"
Rejects == "rejects"
JSONSchema == {"false", "true", "object"}
\* !schema
schemaFalsy(schema) == schema \in {Undefined, "false"}
Resolved(value) == [settled |-> "resolved", value |-> value]
Rejected(error) == [settled |-> "rejected", value |-> error]
\* JSONSchemaStore.add
add(schemas, address, schema) ==
  IF schemas[address] # Undefined THEN [ok |-> FALSE, schemas |-> schemas]
  ELSE [ok |-> TRUE, schemas |-> [schemas EXCEPT ![address] = schema]]
\* JSONSchemaStore.get up to the await: None when it goes on to fetch
getCached(schemas, address) ==
  IF ~schemaFalsy(schemas[address]) THEN Some(Resolved(schemas[address])) ELSE None
\* get that lets the rejection of the fetch through
getFetchedRethrowing(schemas, address, local, fetched) ==
  IF fetched = Rejects THEN [schemas |-> schemas, result |-> Rejected("fetch failed")]
  ELSE IF schemaFalsy(fetched) THEN [schemas |-> schemas, result |-> Resolved(Undefined)]
  ELSE LET added == add(schemas, address, fetched)
       IN [schemas |-> added.schemas,
           result |-> IF added.ok THEN Resolved(fetched)
                      ELSE Rejected("Cannot set a schema for an address twice")]
\* JSONSchemaStore.get from the settling of the fetch on; local is the value
\* of its variable schema at the await, which a rejected fetch leaves alone
getFetched(schemas, address, local, fetched) ==
  LET schema == IF fetched = Rejects THEN local ELSE fetched
  IN IF schemaFalsy(schema) THEN [schemas |-> schemas, result |-> Resolved(Undefined)]
     ELSE LET added == add(schemas, address, schema)
          IN [schemas |-> added.schemas,
              result |-> IF added.ok THEN Resolved(schema)
                         ELSE Rejected("Cannot set a schema for an address twice")]

\* ------------------------------------------------------------------------
\* Structural compatibility (part_001) of the types of a graph original,
\* for primitive types, arrays and set operations.  The closure queue of
\* structuallyCompatible works on q, which holds workList and failed; a
\* function that calls it returns q with its result.
\* ------------------------------------------------------------------------
RECURSIVE structuallyCompatible(_, _, _, _)
trivallyStructurallyCompatible(x, y) ==
  TypeIndex(x) = TypeIndex(y) \/ x.kind = "none" \/ y.kind = "none"
\* Type.kindsCompatible
kindsCompatible(kind1, kind2, conflateNumbers) ==
  IF kind1 = kind2 THEN TRUE
  ELSE IF ~conflateNumbers THEN FALSE
  ELSE IF kind1 = "integer" THEN kind2 = "double"
  ELSE IF kind1 = "double" THEN kind2 = "integer"
  ELSE FALSE
queue(q, x, y, conflateNumbers) ==
  IF trivallyStructurallyCompatible(x, y) THEN [q |-> q, result |-> TRUE]
  ELSE IF ~kindsCompatible(x.kind, y.kind, conflateNumbers)
  THEN [q |-> [q EXCEPT !.failed = TRUE], result |-> FALSE]
  ELSE [q |-> [q EXCEPT !.workList = Append(@, <<x, y>>)], result |-> TRUE]
\* the callback membersEqual of setOperationCasesEqual: queue for the
\* structuralEqualityStep of a set operation, and
\* (a, b) => a.structuallyCompatible(b, true) for shouldBeMap
membersEqual(original, how, q, ta, tb, conflateNumbers) ==
  IF how = "queue" THEN queue(q, ta, tb, conflateNumbers)
  ELSE [q |-> q, result |-> structuallyCompatible(original, ta, tb, TRUE)]
\* the iterableEvery of setOperationCasesEqual over the rest of ma
RECURSIVE everyCaseEqual(_, _, _, _, _, _)
everyCaseEqual(original, how, q, rest, mb, conflateNumbers) ==
  IF rest = <<>> THEN [q |-> q, result |-> TRUE]
  ELSE With(SelectSeq(mb, LAMBDA t : t.kind = Head(rest).kind), LAMBDA sameKind :
       With(IF sameKind = <<>> THEN [q |-> q, result |-> FALSE]
            ELSE membersEqual(original, how, q, Head(rest), sameKind[1], conflateNumbers),
            LAMBDA r :
         IF \/ r.result
            \/ /\ conflateNumbers
               /\ \/ Head(rest).kind = "integer" /\ \E t \in Range(mb) : t.kind = "double"
                  \/ Head(rest).kind = "double" /\ \E t \in Range(mb) : t.kind = "integer"
         THEN everyCaseEqual(original, how, r.q, Tail(rest), mb, conflateNumbers)
         ELSE [q |-> r.q, result |-> FALSE]))
\* setOperationCasesEqual for the types typeA and typeB in their order
setOperationCasesEqual(original, how, q, typeA, typeB, conflateNumbers) ==
  IF Cardinality(Range(typeA)) # Cardinality(Range(typeB)) THEN [q |-> q, result |-> FALSE]
  ELSE everyCaseEqual(original, how, q, typeA, typeB, conflateNumbers)
\* SetOperationType.members, in the order of their indices
membersOf(original, t) ==
  With(SortedSeq({typeRefIndex(r) : r \in t.memberRefs[1]}), LAMBDA indices :
    [i \in DOMAIN indices |-> original.types[indices[i] + 1]])
\* structuralEqualityStep of PrimitiveType, ArrayType and SetOperationType
structuralEqualityStep(original, a, b, conflateNumbers, q) ==
  IF isPrimitiveTypeKind(a.kind) THEN [q |-> q, result |-> TRUE]
  ELSE IF a.kind = "array"
  THEN queue(q, originalTypeOf(original, a.ref), originalTypeOf(original, b.ref), conflateNumbers)
  ELSE setOperationCasesEqual(original, "queue", q, membersOf(original, a),
                              membersOf(original, b), conflateNumbers)
\* the loop of structuallyCompatible over workList; done holds the pairs
\* of indices that were compared
RECURSIVE compareWorkList(_, _, _, _)
compareWorkList(original, conflateNumbers, q, done) ==
  IF q.workList = <<>> THEN TRUE
  ELSE
    With(q.workList[Len(q.workList)], LAMBDA top :
    With(IF TypeIndex(top[1]) > TypeIndex(top[2]) THEN <<top[2], top[1]>> ELSE top, LAMBDA ab :
    With([workList |-> SubSeq(q.workList, 1, Len(q.workList) - 1), failed |-> FALSE],
         LAMBDA popped :
      IF ~isPrimitiveTypeKind(ab[1].kind)
         /\ <<TypeIndex(ab[1]), TypeIndex(ab[2])>> \in Range(done)
      THEN compareWorkList(original, conflateNumbers, [popped EXCEPT !.failed = q.failed], done)
      ELSE With(structuralEqualityStep(original, ab[1], ab[2], conflateNumbers, popped),
                LAMBDA r :
             IF ~r.result \/ r.q.failed THEN FALSE
             ELSE compareWorkList(original, conflateNumbers, r.q,
                                  IF isPrimitiveTypeKind(ab[1].kind) THEN done
                                  ELSE Append(done, <<TypeIndex(ab[1]), TypeIndex(ab[2])>>)))))) 
\* Type.structuallyCompatible
structuallyCompatible(original, this, other, conflateNumbers) ==
  IF trivallyStructurallyCompatible(this, other) THEN TRUE
  ELSE IF ~kindsCompatible(this.kind, other.kind, conflateNumbers) THEN FALSE
  ELSE compareWorkList(original, conflateNumbers,
                       [workList |-> <<<<this, other>>>>, failed |-> FALSE], <<>>)

\* ------------------------------------------------------------------------
\* InferMaps.ts.  A property is [name, type]; a name is the sequence of
\* its characters.  The verdict of the Markov chain on the names,
\* probability > limit, is the argument probable.
\* ------------------------------------------------------------------------
Digits == {"0", "1", "2", "3", "4", "5", "6", "7", "8", "9"}
\* /^\d+$/.test(n)
isDigits(n) == n # <<>> /\ \A i \in DOMAIN n : n[i] \in Digits
mapSizeThreshold == 20
stringMapSizeThreshold == 20
\* the second component of removeNullFromType (TypeUtils)
removeNullFromType(original, t) ==
  IF t.kind = "null" THEN <<>>
  ELSE IF t.kind # "union" THEN <<t>>
  ELSE SelectSeq(membersOf(original, t), LAMBDA m : m.kind # "null")
\* the loop of shouldBeMap over the rest of the properties; st holds
\* firstNonNullCases, allCases and canBeMap
RECURSIVE shouldBeMapLoop(_, _, _)
shouldBeMapLoop(original, rest, st) ==
  IF rest = <<>> THEN st
  ELSE
    With(removeNullFromType(original, Head(rest).type), LAMBDA nn :
      IF nn # <<>> /\ st.firstNonNullCases # None
         /\ ~setOperationCasesEqual(original, "structuallyCompatible",
                                    [workList |-> <<>>, failed |-> FALSE],
                                    nn, st.firstNonNullCases[1], TRUE).result
      THEN [st EXCEPT !.canBeMap = TRUE]
      ELSE shouldBeMapLoop(original, Tail(rest),
             [st EXCEPT !.firstNonNullCases = IF nn # <<>> /\ @ = None THEN Some(nn) ELSE @,
                        !.allCases = @ \cup {Head(rest).type}]))
\* shouldBeMap: None for undefined, or the set of the types of the map
shouldBeMap(original, properties, probable) ==
  LET numProperties == Len(properties)
  IN IF numProperties < 2 THEN None
     ELSE IF \A i \in DOMAIN properties : isDigits(properties[i].name)
     THEN Some({properties[i].type : i \in DOMAIN properties})
     ELSE IF /\ numProperties < stringMapSizeThreshold
             /\ \A i \in DOMAIN properties :
                  \/ isPrimitiveStringTypeKind(properties[i].type.kind)
                  \/ properties[i].type.kind = "null"
     THEN None
     ELSE IF numProperties < mapSizeThreshold /\ probable THEN None
     ELSE With(shouldBeMapLoop(original, properties,
                               [firstNonNullCases |-> None, allCases |-> {}, canBeMap |-> TRUE]),
               LAMBDA st : IF ~st.canBeMap THEN None ELSE Some(st.allCases))

\* ------------------------------------------------------------------------
\* Calls of the functions of the other components: the arguments are drawn
\* from the inputs, the call stores what it returned
\* ------------------------------------------------------------------------
Returns(r) == [called |-> TRUE, ok |-> r # None, value |-> IF r = None THEN <<>> ELSE r[1]]

\* the successor arrays of the graphs with up to MaxNodes nodes
SuccessorInputs ==
  UNION {{[v \in 1 .. n |-> SortedSeq(f[v])] : f \in [1 .. n -> SUBSET (0 .. n - 1)]} :
           n \in 0 .. MaxNodes}

StronglyConnectedComponents ==
  /\ ~output.called
  /\ output' = Returns(stronglyConnectedComponents(input))
  /\ UNCHANGED <<input, builderVars>>

SccInit == BuilderInit({DefaultConfiguration}) /\ input \in SuccessorInputs /\ output = NotCalled
SccNext == StronglyConnectedComponents
SccSpec == SccInit /\ [][SccNext]_vars

\* the kinds of the members of the unions with up to MaxMembers members
MemberKindInputs ==
  {"none", "any", "null", "integer", "string", "enum", "class", "map", "object", "array",
   "union", "intersection"}
IsCanonical ==
  /\ ~output.called
  /\ output' = Returns(Some(isCanonical(input)))
  /\ UNCHANGED <<input, builderVars>>

IsCanonicalInit ==
  /\ BuilderInit({DefaultConfiguration})
  /\ input \in UNION {[1 .. n -> MemberKindInputs] : n \in 0 .. MaxMembers}
  /\ output = NotCalled
IsCanonicalNext == IsCanonical
IsCanonicalSpec == IsCanonicalInit /\ [][IsCanonicalNext]_vars

\* Graph.stronglyConnectedComponents on the graph whose nodes are their own
\* indices
GraphComponents ==
  /\ ~output.called
  /\ output' = Returns(GraphStronglyConnectedComponents(
                         Graph([i \in DOMAIN input |-> i - 1], FALSE, input)))
  /\ UNCHANGED <<input, builderVars>>

GraphComponentsInit ==
  BuilderInit({DefaultConfiguration}) /\ input \in SuccessorInputs /\ output = NotCalled
GraphComponentsNext == GraphComponents
GraphComponentsSpec == GraphComponentsInit /\ [][GraphComponentsNext]_vars

\* Graph.dfsTraversal from a node of the graph whose nodes are their own
\* indices
DfsTraversal ==
  /\ ~output.called
  /\ output' = Returns(dfsTraversal(Graph([i \in DOMAIN input.successors |-> i - 1], FALSE,
                                          input.successors),
                                    input.root, input.preOrder))
  /\ UNCHANGED <<input, builderVars>>
TraversalInit ==
  /\ BuilderInit({DefaultConfiguration})
  /\ \E successors \in SuccessorInputs :
       \E root \in 0 .. Len(successors) - 1, preOrder \in BOOLEAN :
         input = [successors |-> successors, root |-> root, preOrder |-> preOrder]
  /\ output = NotCalled
TraversalNext == DfsTraversal
TraversalSpec == TraversalInit /\ [][TraversalNext]_vars

\* the type graphs with up to MaxNodes types, each with the types that need
\* a declaration and with or without the types that can be forward-declared
DeclarationInputs ==
  UNION {[childrenOfType : [1 .. n -> SUBSET (0 .. n - 1)],
          needsDeclaration : SUBSET (0 .. n - 1),
          canBeForwardDeclared : {None} \cup {Some(f) : f \in SUBSET (0 .. n - 1)}] :
           n \in 0 .. MaxNodes}

DeclarationsForGraph ==
  /\ ~output.called
  /\ output' = Returns(declarationsForGraph(input))
  /\ UNCHANGED <<input, builderVars>>

DeclarationsInit ==
  BuilderInit({DefaultConfiguration}) /\ input \in DeclarationInputs /\ output = NotCalled
DeclarationsNext == DeclarationsForGraph
DeclarationsSpec == DeclarationsInit /\ [][DeclarationsNext]_vars

\* the sequences without repetition of elements of S
EdgeLists(S) ==
  UNION {{e \in [1 .. Cardinality(T) -> T] : \A i, j \in DOMAIN e : i # j => e[i] # e[j]} :
           T \in SUBSET S}
\* the out-edge arrays of the graphs with up to MaxNodes nodes, each with a
\* chooser
BreakCyclesInputs ==
  UNION {[outEdges : [1 .. n -> EdgeLists(0 .. n - 1)], chooser : {"first", "last", "zero"}] :
           n \in 0 .. MaxNodes}

BreakCycles ==
  /\ ~output.called
  /\ LET r == breakCycles(input.outEdges, input.chooser)
     IN output' = [called |-> TRUE, ok |-> r.ok /\ ~r.diverges,
                   value |-> [ret |-> r.ret, diverges |-> r.diverges]]
  /\ UNCHANGED <<input, builderVars>>

BreakCyclesInit ==
  BuilderInit({DefaultConfiguration}) /\ input \in BreakCyclesInputs /\ output = NotCalled
BreakCyclesNext == BreakCycles
BreakCyclesSpec == BreakCyclesInit /\ [][BreakCyclesNext]_vars

\* the min/max attributes of the members of the unions
MinMaxInputs == {<<Some(0), None>>, <<Some(-1), None>>, <<Some(0), Some(1)>>}
MinMaxAttributeInputs == {emptyTypeAttributes} \cup {[k \in {"minMax"} |-> v] : v \in MinMaxInputs}
\* the members: number and bool types with their attributes, and any
MemberTypeInputs ==
  ({"integer", "double", "bool"} \X MinMaxAttributeInputs) \cup {<<"any", emptyTypeAttributes>>}
\* TypeRefUnionAccumulator.addTypes for member types that are no unions:
\* every type is added with its own attributes
RECURSIVE addTypes(_, _)
addTypes(acc, rest) ==
  IF rest = <<>> THEN acc
  ELSE addTypes(IF Head(rest)[1] = "any" THEN addAny(acc, Head(rest)[2])
                ELSE addPrimitive(acc, Head(rest)[1], Head(rest)[2]),
                Tail(rest))
\* a union builder builds the union of the members on a new builder
BuildUnion ==
  /\ ~output.called
  /\ LET built(b) ==
           /\ types' = b.types
           /\ typeAttributes' = b.attrs
           /\ typeForIdentity' = b.tfi
           /\ addedForwardingIntersection' = b.fwd
           /\ madeBy' = b.madeBy
           /\ lastCall' = [ok |-> b.ok, case |-> {}]
           /\ output' = [called |-> TRUE, ok |-> b.ok, value |-> b.ret]
     IN built(buildUnion(Builder, addTypes(NewUnionAccumulator, input.members),
                         input.conflateNumbers, emptyTypeAttributes, NoRef))
  /\ UNCHANGED <<input, topLevels, stringTypeMapping, addProvenanceAttributes,
                 allPropertiesOptional, typeGraph>>
BuildUnionInit ==
  /\ BuilderInit({DefaultConfiguration})
  /\ \E n \in 1 .. MaxMembers :
       \E ms \in [1 .. n -> MemberTypeInputs] :
         \E conflateNumbers \in BOOLEAN :
           input = [members |-> ms, conflateNumbers |-> conflateNumbers]
  /\ output = NotCalled
BuildUnionNext == BuildUnion
BuildUnionSpec == BuildUnionInit /\ [][BuildUnionNext]_vars

\* the members of the unions of enums and strings: enums with the case x,
\* unrestricted strings and integers, each with or without a description
DescriptionInputs == {emptyTypeAttributes} \cup {[k \in {"description"} |-> {d}] : d \in {"e", "s"}}
EnumStringInputs == {"enum", "string", "integer"} \X DescriptionInputs
\* the calls that add the rest of the members to the accumulator
RECURSIVE addEnumsAndStrings(_, _)
addEnumsAndStrings(acc, rest) ==
  IF ~acc.ok \/ rest = <<>> THEN acc
  ELSE addEnumsAndStrings(IF Head(rest)[1] = "enum" THEN addEnum(acc, {"x"}, Head(rest)[2])
                          ELSE IF Head(rest)[1] = "string"
                          THEN addFullStringType(acc, Head(rest)[2], None)
                          ELSE addPrimitive(acc, Head(rest)[1], Head(rest)[2]),
                          Tail(rest))
GetMemberKinds ==
  /\ ~output.called
  /\ LET returned(r) == [called |-> TRUE, ok |-> r.ok, value |-> r.value]
     IN output' = returned(getMemberKinds(addEnumsAndStrings(NewUnionAccumulator, input), FALSE))
  /\ UNCHANGED <<input, builderVars>>
EnumStringInit ==
  /\ BuilderInit({DefaultConfiguration})
  /\ \E n \in 1 .. MaxMembers : input \in [1 .. n -> EnumStringInputs]
  /\ output = NotCalled
EnumStringNext == GetMemberKinds
EnumStringSpec == EnumStringInit /\ [][EnumStringNext]_vars

\* the members of the intersections: a string type and the object types
\* with a property name of type string, a property age of type integer,
\* each absent, required or optional, and with or without additional
\* properties of type any
ClassPropertyOf(type, isOptional) == [type |-> type, isOptional |-> isOptional]
ObjectTypeInputs ==
  {[kind |-> "object", properties |-> ps, additional |-> ad] :
     ps \in UNION {[names -> BOOLEAN] : names \in SUBSET {"name", "age"}},
     ad \in {None, Some("any")}}
ObjectMember(o) ==
  [kind |-> "object",
   properties |-> [n \in DOMAIN o.properties |->
                     ClassPropertyOf(IF n = "name" THEN "string" ELSE "integer", o.properties[n])],
   additional |-> o.additional]
IntersectionMemberInputs ==
  {ObjectMember(o) : o \in ObjectTypeInputs}
    \cup {[kind |-> "string", properties |-> <<>>, additional |-> None]}
ResolveObjects ==
  /\ ~output.called
  /\ output' = Returns(objectData(input))
  /\ UNCHANGED <<input, builderVars>>
ResolveObjectsInit ==
  /\ BuilderInit({DefaultConfiguration})
  /\ \E n \in 1 .. MaxMembers : input \in [1 .. n -> IntersectionMemberInputs]
  /\ output = NotCalled
ResolveObjectsNext == ResolveObjects
ResolveObjectsSpec == ResolveObjectsInit /\ [][ResolveObjectsNext]_vars

\* the members of the intersections by their alternatives: string, integer
\* and double types, an array of x, an object without properties, the
\* unions of two of these, and a described array of y
MemberType(kind, items, attributes) ==
  [kind |-> kind, items |-> items, attributes |-> attributes,
   properties |-> <<>>, additional |-> None]
AlternativeInputs ==
  {MemberType(k, "", emptyTypeAttributes) : k \in {"string", "integer", "double", "object"}}
    \cup {MemberType("array", "x", emptyTypeAttributes)}
UnionSetInputs ==
  {<<t>> : t \in AlternativeInputs}
    \cup {<<MemberType("array", "y", [k \in {"description"} |-> {"d"}])>>}
    \cup {<<t, u>> : t \in AlternativeInputs,
                     u \in {v \in AlternativeInputs : v.kind \in {"array", "object", "string"}}}
GetMembersKinds ==
  /\ ~output.called
  /\ output' = Returns(getMembersKinds(input))
  /\ UNCHANGED <<input, builderVars>>
MembersKindsInit ==
  /\ BuilderInit({DefaultConfiguration})
  /\ \E n \in 1 .. MaxMembers : input \in [1 .. n -> UnionSetInputs]
  /\ output = NotCalled
MembersKindsNext == GetMembersKinds
MembersKindsSpec == MembersKindsInit /\ [][MembersKindsNext]_vars

\* the rewrites: input is the original graph, the sets to replace and the
\* replacer; output is the part of the rewrite builder that the variables
\* of the TypeBuilder do not hold, with the results of the calls.  The
\* original graph is one that a TypeBuilder can have built: the primitive
\* types that getPrimitiveType makes, arrays and unions of earlier types,
\* no type twice.
RewriteConfiguration ==
  [stringTypeMapping |-> [k \in {"date"} |-> "date"], addProvenanceAttributes |-> FALSE,
   allPropertiesOptional |-> FALSE]
OriginalRef(i) == makeTypeRef(OtherGraph, i)
OriginalCandidates(g) ==
  LET ref == OriginalRef(Len(g))
      refs == {OriginalRef(j) : j \in 0 .. Len(g) - 1}
      all == {PrimitiveType(ref, k) : k \in {"string", "date"}}
               \cup {ArrayType(ref, r) : r \in refs}
               \cup {UnionType(ref, Some(m)) : m \in {x \in SUBSET refs : Cardinality(x) \in {1, 2}}}
  IN {t \in all : \A i \in DOMAIN g : [g[i] EXCEPT !.typeRef = ref] # t}
RECURSIVE OriginalTypes(_)
OriginalTypes(n) ==
  IF n = 0 THEN {<<>>}
  ELSE UNION {{Append(g, t) : t \in OriginalCandidates(g)} : g \in OriginalTypes(n - 1)}
\* the graphs of the structural comparisons: number, string and null
\* types, arrays of any type of the graph, themselves included, and unions
\* of two other types
ComparedCandidates(n, i) ==
  LET ref == OriginalRef(i)
      refs == {OriginalRef(j) : j \in 0 .. n - 1}
  IN {PrimitiveType(ref, k) : k \in {"integer", "double", "string", "null"}}
       \cup {ArrayType(ref, r) : r \in refs}
       \cup {UnionType(ref, Some(m)) : m \in {x \in SUBSET (refs \ {ref}) : Cardinality(x) = 2}}
ComparedGraphs ==
  UNION {{g \in [1 .. n -> UNION {ComparedCandidates(n, i) : i \in 0 .. n - 1}] :
            \A i \in 1 .. n : g[i].typeRef = OriginalRef(i - 1)} : n \in 2 .. MaxTypes}
StructuallyCompatible ==
  /\ ~output.called
  /\ output' = Returns(Some(structuallyCompatible([types |-> input.types],
                                                  input.types[input.a], input.types[input.b],
                                                  input.conflateNumbers)))
  /\ UNCHANGED <<input, builderVars>>
CompatibleInit ==
  /\ BuilderInit({DefaultConfiguration})
  /\ \E g \in ComparedGraphs :
       \E a \in DOMAIN g, b \in DOMAIN g, conflateNumbers \in BOOLEAN :
         input = [types |-> g, a |-> a, b |-> b, conflateNumbers |-> conflateNumbers]
  /\ output = NotCalled
CompatibleNext == StructuallyCompatible
CompatibleSpec == CompatibleInit /\ [][CompatibleNext]_vars
\* the classes of shouldBeMap: two properties, whose names are words,
\* numbers or mixed, with types of a graph of the structural comparisons
PropertyNameInputs ==
  {<<<<"a">>, <<"b">>>>, <<<<"1">>, <<"2", "0">>>>, <<<<"a">>, <<"1">>>>}
ShouldBeMap ==
  /\ ~output.called
  /\ output' = [called |-> TRUE, ok |-> TRUE,
                 value |-> shouldBeMap([types |-> input.types], input.properties,
                                       input.probable)]
  /\ UNCHANGED <<input, builderVars>>
InferMapsInit ==
  /\ BuilderInit({DefaultConfiguration})
  /\ \E g \in ComparedGraphs :
       \E names \in PropertyNameInputs, a \in DOMAIN g, b \in DOMAIN g, probable \in BOOLEAN :
         input = [types |-> g,
                  properties |-> <<[name |-> names[1], type |-> g[a]],
                                   [name |-> names[2], type |-> g[b]]>>,
                  probable |-> probable]
  /\ output = NotCalled
InferMapsNext == ShouldBeMap
InferMapsSpec == InferMapsInit /\ [][InferMapsNext]_vars
RewriteNames == <<"T", "U">>
SetsToReplaceInputs(refs) ==
  LET sets == SUBSET refs \ {{}}
  IN {<<>>} \cup {<<a>> : a \in sets}
            \cup {p \in sets \X sets : p[1] \cap p[2] = {}}
RewriteBuilder ==
  Builder @@ [original |-> input.original,
              replacer |-> input.replacer,
              reconstitutedTypes |-> output.reconstitutedTypes,
              setsToReplaceByMember |-> output.setsToReplaceByMember,
              reconstituedUnions |-> output.reconstituedUnions,
              replacerCalls |-> output.replacerCalls]
RewriteBuilt(rb) ==
  /\ types' = rb.types
  /\ typeAttributes' = rb.attrs
  /\ typeForIdentity' = rb.tfi
  /\ addedForwardingIntersection' = rb.fwd
  /\ madeBy' = rb.madeBy
  /\ lastCall' = [ok |-> rb.ok, case |-> {}]
RewriteOutput(rb) ==
  [output EXCEPT !.reconstitutedTypes = rb.reconstitutedTypes,
                 !.setsToReplaceByMember = rb.setsToReplaceByMember,
                 !.reconstituedUnions = rb.reconstituedUnions,
                 !.replacerCalls = rb.replacerCalls]
NewGraphRewriteBuilder ==
  /\ output.constructed = "no"
  /\ LET byMember == newSetsToReplaceByMember(input.original, input.setsToReplace)
     IN output' = IF byMember = None THEN [output EXCEPT !.constructed = "failed"]
                  ELSE [output EXCEPT !.constructed = "ok", !.setsToReplaceByMember = byMember[1]]
  /\ UNCHANGED <<input, builderVars>>
ReconstituteTypeRef ==
  /\ output.constructed = "ok"
  /\ output.finished = "no"
  /\ Len(output.results) < MaxCalls
  /\ \E i \in DOMAIN input.original.types :
       LET returned(rb) ==
             /\ RewriteBuilt(rb)
             /\ output' = [RewriteOutput(rb) EXCEPT
                             !.results = Append(@, [ref |-> OriginalRef(i - 1), ok |-> rb.ok,
                                                    ret |-> rb.ret])]
       IN returned(reconstituteTypeRef(RewriteBuilder, OriginalRef(i - 1), None, NoRef))
  /\ UNCHANGED <<input, topLevels, stringTypeMapping, addProvenanceAttributes,
                 allPropertiesOptional, typeGraph>>
FinishRewrite ==
  /\ output.constructed = "ok"
  /\ output.finished = "no"
  /\ LET names == SelectSeq(RewriteNames, LAMBDA n : n \in DOMAIN input.original.topLevels)
         finished(r, g) ==
           /\ RewriteBuilt([r.b EXCEPT !.ok = g # None])
           /\ topLevels' = r.topLevels
           /\ typeGraph' = g
           /\ output' = [RewriteOutput(r.b) EXCEPT
                           !.finished = IF g # None THEN "ok" ELSE "failed"]
         reconstituted(r) == finished(r, IF r.b.ok THEN finish(r.b, r.topLevels) ELSE None)
     IN reconstituted(reconstituteTopLevels(RewriteBuilder, topLevels, names))
  /\ UNCHANGED <<input, stringTypeMapping, addProvenanceAttributes, allPropertiesOptional>>
RewriteInit ==
  /\ BuilderInit({RewriteConfiguration})
  /\ \E n \in 1 .. MaxTypes :
       \E g \in OriginalTypes(n) :
         LET refs == {OriginalRef(j) : j \in 0 .. n - 1}
         IN \E t \in refs, u \in refs \cup {NoRef}, sets \in SetsToReplaceInputs(refs),
               r \in {"string", "class"} :
              input = [original |->
                         [types |-> g,
                          typeAttributes |-> [i \in 1 .. n |-> emptyTypeAttributes],
                          topLevels |-> IF u = NoRef THEN [x \in {"T"} |-> t]
                                        ELSE [x \in {"T", "U"} |-> IF x = "T" THEN t ELSE u]],
                       setsToReplace |-> sets,
                       replacer |-> r]
  /\ output = [constructed |-> "no", finished |-> "no", results |-> <<>>,
               reconstitutedTypes |-> <<>>, setsToReplaceByMember |-> <<>>,
               reconstituedUnions |-> <<>>, replacerCalls |-> <<>>]
RewriteNext == NewGraphRewriteBuilder \/ ReconstituteTypeRef \/ FinishRewrite
RewriteSpec == RewriteInit /\ [][RewriteNext]_vars

\* flattenUnions on a graph
FlattenUnions ==
  /\ ~output.called
  /\ LET returned(r) ==
           /\ RewriteBuilt([r.b EXCEPT !.ok = r.ok])
           /\ typeGraph' = r.graph
           /\ topLevels' = IF r.graph = None THEN topLevels ELSE r.graph[1].topLevels
           /\ output' = [called |-> TRUE, ok |-> r.ok, value |-> r.stable]
     IN returned(flattenUnions(Builder, input.original, input.conflateNumbers))
  /\ UNCHANGED <<input, stringTypeMapping, addProvenanceAttributes, allPropertiesOptional>>
FlattenInit ==
  /\ BuilderInit({RewriteConfiguration})
  /\ \E n \in 1 .. MaxTypes :
       \E g \in OriginalTypes(n) :
         LET refs == {OriginalRef(j) : j \in 0 .. n - 1}
         IN \E t \in refs, u \in refs \cup {NoRef}, conflateNumbers \in BOOLEAN :
              input = [original |->
                         [types |-> g,
                          typeAttributes |-> [i \in 1 .. n |-> emptyTypeAttributes],
                          topLevels |-> IF u = NoRef THEN [x \in {"T"} |-> t]
                                        ELSE [x \in {"T", "U"} |-> IF x = "T" THEN t ELSE u]],
                       conflateNumbers |-> conflateNumbers]
  /\ output = NotCalled
FlattenNext == FlattenUnions
FlattenSpec == FlattenInit /\ [][FlattenNext]_vars

\* the callers of the schema store: input is the address each caller gets,
\* output the schemas of the store and the position of each call
StoreCallers == {"c1", "c2"}
StoreAddresses == {"a", "b"}
FetchOutcomes == JSONSchema \cup {Undefined, Rejects}
IdleCall == [pc |-> "idle", schema |-> Undefined, fetched |-> Undefined,
             result |-> Resolved(Undefined)]
Get(c) ==
  /\ output.calls[c].pc = "idle"
  /\ LET cached == getCached(output.schemas, input[c])
     IN output' = [output EXCEPT !.calls[c] =
                     IF cached = None
                     THEN [@ EXCEPT !.pc = "fetching", !.schema = output.schemas[input[c]]]
                     ELSE [@ EXCEPT !.pc = "done", !.result = cached[1]]]
  /\ UNCHANGED <<input, builderVars>>
FetchSettles(c) ==
  /\ output.calls[c].pc = "fetching"
  /\ \E fetched \in FetchOutcomes :
       LET r == getFetched(output.schemas, input[c], output.calls[c].schema, fetched)
       IN output' = [schemas |-> r.schemas,
                     calls |-> [output.calls EXCEPT ![c] =
                                  [@ EXCEPT !.pc = "done", !.fetched = fetched,
                                            !.result = r.result]]]
  /\ UNCHANGED <<input, builderVars>>
StoreInit ==
  /\ BuilderInit({DefaultConfiguration})
  /\ input \in [StoreCallers -> StoreAddresses]
  /\ output = [schemas |-> [a \in StoreAddresses |-> Undefined],
               calls |-> [c \in StoreCallers |-> IdleCall]]
StoreNext == \E c \in StoreCallers : Get(c) \/ FetchSettles(c)
StoreSpec == StoreInit /\ [][StoreNext]_vars

\* the transformer trees: a chain of up to MaxChain producer transformers,
\* each the consumer of the one before it, the last of which may have an
\* encoding or union instantiation transformer as its consumer
TransformerTypeRefs == {makeTypeRef(ThisGraph, 0), makeTypeRef(ThisGraph, 1)}
TerminalInputs ==
  {None} \cup {Some(EncodingTransformer(r)) : r \in TransformerTypeRefs}
         \cup {Some(UnionInstantiationTransformer(r)) : r \in TransformerTypeRefs}
RECURSIVE chainOf(_, _)
chainOf(nodes, terminal) ==
  IF nodes = <<>> THEN terminal
  ELSE Some(Transformer(Head(nodes)[1], Head(nodes)[2], chainOf(Tail(nodes), terminal), None, NoRef))
RoundTrip ==
  /\ ~output.called
  /\ output' = Returns(roundTrip(input.transformer, input.target))
  /\ UNCHANGED <<input, builderVars>>
RoundTripInit ==
  /\ BuilderInit({DefaultConfiguration})
  /\ \E n \in 1 .. MaxChain :
       \E nodes \in [1 .. n -> ProducerKinds \X TransformerTypeRefs] :
         \E terminal \in TerminalInputs, target \in TransformerTypeRefs :
           input = [transformer |-> chainOf(nodes, terminal)[1], target |-> target]
  /\ output = NotCalled
RoundTripNext == RoundTrip
RoundTripSpec == RoundTripInit /\ [][RoundTripNext]_vars

\* the namers of the names
upperNamer == Namer("upper", "upper", <<"Purple">>)
plainNamer == Namer("plain", "plain", <<>>)
\* the names that the configurations are made of; "associated" stands for
\* an associated name of the member before it in its namespace
NameInputs ==
  {FixedName("A"), SimpleName(<<"a">>, upperNamer, 0), SimpleName(<<"A">>, plainNamer, 1),
   AssociatedName(0, 0)}
NamespaceInputs == {1, 2, 3}
\* the members of namespace ns when the names of placed are added in their
\* order, each to its namespace
membersPlaced(placed, ns) ==
  LET own == SelectSeq(placed, LAMBDA pl : pl[1] = ns)
  IN [k \in DOMAIN own |->
        IF own[k][2].kind = "associated" THEN AssociatedName(k - 1, 0) ELSE own[k][2]]
\* up to MaxNames names in three namespaces, each of which forbids at most
\* one of the others; an associated name follows its sponsor, which is a
\* SimpleName
NamingConfiguration(placed, forbidden) ==
  [members |-> [ns \in NamespaceInputs |-> membersPlaced(placed, ns)],
   forbiddenNamespaces |-> forbidden,
   additionalForbidden |-> [ns \in NamespaceInputs |-> {}]]
WellFormed(cfg) ==
  \A ns \in DOMAIN cfg.members : \A k \in DOMAIN cfg.members[ns] :
    cfg.members[ns][k].kind = "associated" =>
      (k > 1 /\ cfg.members[ns][k - 1].kind = "simple")

AssignNames ==
  /\ ~output.called
  /\ output' = Returns(assignNames(input))
  /\ UNCHANGED <<input, builderVars>>

NamingInit ==
  /\ BuilderInit({DefaultConfiguration})
  /\ \E n \in 0 .. MaxNames :
       \E placed \in [1 .. n -> NamespaceInputs \X NameInputs] :
         \E forbidden \in [NamespaceInputs -> {{}} \cup {{ns} : ns \in NamespaceInputs}] :
           /\ \A ns \in NamespaceInputs : ns \notin forbidden[ns]
           /\ WellFormed(NamingConfiguration(placed, forbidden))
           /\ input = NamingConfiguration(placed, forbidden)
  /\ output = NotCalled
NamingNext == AssignNames
NamingSpec == NamingInit /\ [][NamingNext]_vars

\* the names of the configurations in which names propose "User": both
\* styles leave "User" and the names built from it as they are
UserNameInputs ==
  {FixedName("User"), FixedName("Purple_User"),
   SimpleName(<<"User">>, upperNamer, 0), SimpleName(<<"User">>, plainNamer, 0),
   SimpleName(<<"User">>, upperNamer, 1)}
UserNamespaceInputs == {1, 2}
\* up to MaxNames names in namespaces 1 and 2, of which namespace 1 may
\* forbid namespace 2; namespace 3 stays empty
CollisionInit ==
  /\ BuilderInit({DefaultConfiguration})
  /\ \E n \in 0 .. MaxNames :
       \E placed \in [1 .. n -> UserNamespaceInputs \X UserNameInputs] :
         \E forbidden1 \in {{}, {2}} :
           input = NamingConfiguration(placed, [ns \in NamespaceInputs |->
                                                   IF ns = 1 THEN forbidden1 ELSE {}])
  /\ output = NotCalled
CollisionNext == AssignNames
CollisionSpec == CollisionInit /\ [][CollisionNext]_vars

\* the names with dependencies: dependency names of the plain namer that
\* look up one or two names, and associated names of a member of their
\* namespace
DependsOnInputs ==
  {<<id>> : id \in UserNamespaceInputs \X (1 .. MaxNames)}
    \cup {<<<<1, 1>>, <<2, 1>>>>, <<<<1, 1>>, <<1, 2>>>>}
DependencyNameInputs ==
  {FixedName("A"), SimpleName(<<"a">>, upperNamer, 0), SimpleName(<<"b">>, plainNamer, 1)}
    \cup {AssociatedName(k, 0) : k \in 1 .. MaxNames - 1}
    \cup {DependencyName(plainNamer, 0, d) : d \in DependsOnInputs}
\* the names of placed as the members of their namespaces
DependencyConfiguration(placed) ==
  [members |-> [ns \in NamespaceInputs |->
                  LET own == SelectSeq(placed, LAMBDA pl : pl[1] = ns)
                  IN [k \in DOMAIN own |-> own[k][2]]],
   forbiddenNamespaces |-> [ns \in NamespaceInputs |-> {}],
   additionalForbidden |-> [ns \in NamespaceInputs |-> {}]]
\* the names that the names of frontier depend on, directly or through
\* other names, followed for k steps
RECURSIVE dependsOnWithin(_, _, _)
dependsOnWithin(cfg, frontier, k) ==
  IF k = 0 THEN {}
  ELSE LET next == UNION {dependencies(cfg, n) : n \in frontier}
       IN next \cup dependsOnWithin(cfg, next, k - 1)
\* what the constructors allow: the sponsor of an associated name was
\* made before it and is not a fixed name, whose addAssociate panics; a
\* dependency name looks up names that were made before it, so that no
\* name depends on itself.  The associated names share the one getName of
\* the model, so a name has at most one of them
Constructible(cfg) ==
  LET all == UNION {members(cfg, ns) : ns \in DOMAIN cfg.members}
  IN /\ \A n \in all :
          /\ nameAt(cfg, n).kind = "associated" =>
               /\ nameAt(cfg, n).sponsor < n[2]
               /\ nameAt(cfg, <<n[1], nameAt(cfg, n).sponsor>>).kind # "fixed"
          /\ dependencies(cfg, n) \subseteq all
     /\ \A n \in all : n \notin dependsOnWithin(cfg, {n}, MaxNames)
     /\ \A n \in all : Len(associates(cfg, n)) <= 1

\* assignNames with the history of its NamingContext
AssignNamesContext ==
  /\ ~output.called
  /\ LET returned(ctx) == [called |-> TRUE, ok |-> ctx.ok, value |-> ctx.names,
                           trace |-> ctx.trace]
     IN output' = returned(assignNamesContext(input))
  /\ UNCHANGED <<input, builderVars>>
DependencyInit ==
  /\ BuilderInit({DefaultConfiguration})
  /\ \E n \in 0 .. MaxNames :
       \E placed \in [1 .. n -> UserNamespaceInputs \X DependencyNameInputs] :
         /\ Constructible(DependencyConfiguration(placed))
         /\ input = DependencyConfiguration(placed)
  /\ output = NotCalled
DependencyNext == AssignNamesContext
DependencySpec == DependencyInit /\ [][DependencyNext]_vars

\* ------------------------------------------------------------------------
\* Properties of the TypeBuilder
\* ------------------------------------------------------------------------
Committed == {i \in DOMAIN types : types[i] # NoType}
identityAt(i) == identity(Builder, types[i])

\* C1 (as stated): any two committed types that were not constructed as
\* unique and whose identity is defined and equal are the same type
C1_IdentityUniqueExceptUnique ==
  \A i, j \in Committed :
    (/\ madeBy[i] # "unique" /\ madeBy[j] # "unique"
     /\ identityAt(i) # None /\ identityAt(i) = identityAt(j)) => i = j

\* C1 (amended): any two committed types that getOrAddType created for an
\* identity (neither constructed as unique nor a forwarding intersection)
\* and whose identity is defined and equal are the same type
C1_IdentityUnique ==
  \A i, j \in Committed :
    (/\ madeBy[i] = "identity" /\ madeBy[j] = "identity"
     /\ identityAt(i) # None /\ identityAt(i) = identityAt(j)) => i = j

\* a factory call found the identity it asked for among two or more types
\* created for an identity
C1_Witness ==
  /\ lastCall = [ok |-> TRUE, case |-> {"hit"}]
  /\ Cardinality({i \in Committed : madeBy[i] = "identity"}) >= 2

\* C2: an index receives a committed type at most once: a committed index
\* keeps its type (same ref, same kind, same construction), and a call whose
\* forwarding ref already holds a type fails fatally and leaves every stored
\* type unchanged
C2_CommitOnce ==
  [][/\ \A i \in Committed :
          /\ madeBy'[i] = madeBy[i]
          /\ types'[i].typeRef = types[i].typeRef
          /\ types'[i].kind = types[i].kind
     /\ "busy" \in lastCall'.case => (~lastCall'.ok /\ types' = types)]_vars

\* a call with a committed forwarding ref has failed
C2_Witness == ~lastCall.ok /\ "busy" \in lastCall.case /\ Committed # {}

\* C30: a call getPrimitiveType(kind) for a primitive kind that is not a
\* transformed-string kind returns a type of the kind kind, whatever the
\* string type mapping holds
C30_OtherKindsAsRequested ==
  [][\A kind \in PrimitiveKindInputs \ TransformedStringTypeKinds :
       Returned(getPrimitiveType(Builder, kind, None, NoRef), NoRef, FALSE) =>
         /\ lastCall'.ok
         /\ \E i \in DOMAIN types' : types'[i].kind = kind]_vars

\* C3: a set call on a field that already has a value fails fatally and
\* keeps the earlier value
C3_SetOnce ==
  [][("reset" \in lastCall'.case) => (~lastCall'.ok /\ types' = types)]_vars

\* what can be observed through the finished graph: its types (the Type
\* objects are the builder's), its attributes and its top-levels
GraphObservable ==
  IF typeGraph = None THEN None
  ELSE <<SubSeq(types, 1, typeGraph[1].numTypes), typeGraph[1].typeAttributes,
         typeGraph[1].topLevels>>

\* C4: once finish() has returned the graph, no operation changes a type,
\* an attribute map or a top-level that is observable through the graph
C4_FrozenGraphImmutable ==
  [][typeGraph # None => GraphObservable' = GraphObservable]_vars

\* C5: every committed type reports as its index the index of its own
\* TypeRef, which is the index it is stored at, so no two types report the
\* same index
C5_TypeReportsOwnIndex ==
  /\ \A i \in Committed :
       /\ typeRefIndex(types[i].typeRef) = i - 1
       /\ TypeIndex(types[i]) = typeRefIndex(types[i].typeRef)
  /\ \A i, j \in Committed : TypeIndex(types[i]) = TypeIndex(types[j]) => i = j

\* ------------------------------------------------------------------------
\* Properties of the Graph
\* ------------------------------------------------------------------------
RECURSIVE ReachableFrom(_, _)
\* the nodes that paths from the nodes of `from` lead to, `from` included
ReachableFrom(successor, from) ==
  LET next == from \cup UNION {Range(successor[v + 1]) : v \in from}
  IN IF next = from THEN from ELSE ReachableFrom(successor, next)
MutuallyReachable(successor, a, b) ==
  b \in ReachableFrom(successor, {a}) /\ a \in ReachableFrom(successor, {b})

\* C10: stronglyConnectedComponents returns components of which every node
\* is in exactly one, so that their sizes sum to the size of the graph, and
\* two nodes are in the same component exactly when each reaches the other
C10_ComponentsPartition ==
  output.called =>
    /\ output.ok
    /\ Len(Flatten(output.value)) = Len(input)
    /\ \A v \in 0 .. Len(input) - 1 : \E c \in DOMAIN output.value : v \in Range(output.value[c])
    /\ \A a, b \in 0 .. Len(input) - 1 :
         (\E c \in DOMAIN output.value : {a, b} \subseteq Range(output.value[c]))
           <=> MutuallyReachable(input, a, b)

\* the index, in the nodes of the meta-graph, of the component of node v
componentIndex(meta, v) == CHOOSE c \in DOMAIN meta.nodes : v \in Range(meta.nodes[c])

\* C11: Graph.stronglyConnectedComponents returns a meta-graph in which
\* every edge of the graph is inside one component or has a meta-edge from
\* the component of its source to the component of its target, which comes
\* later in the nodes of the meta-graph; no component has a meta-edge to
\* itself
C11_MetaEdgesForward ==
  output.called =>
    /\ output.ok
    /\ \A a \in 0 .. Len(input) - 1 : \A b \in Range(input[a + 1]) :
         LET ca == componentIndex(output.value, a)
             cb == componentIndex(output.value, b)
         IN ca = cb \/ (cb - 1 \in Range(output.value.successors[ca]) /\ ca < cb)
    /\ \A c \in DOMAIN output.value.successors : c - 1 \notin Range(output.value.successors[c])

\* ------------------------------------------------------------------------
\* Properties of the unions
\* ------------------------------------------------------------------------
\* Union.is-canonical as the specification defines it
CanonicalKinds(memberKinds) ==
  LET kinds == {memberKinds[i] : i \in DOMAIN memberKinds}
  IN /\ Len(memberKinds) > 1
     /\ \A i, j \in DOMAIN memberKinds : i # j => memberKinds[i] # memberKinds[j]
     /\ kinds \cap {"union", "intersection", "none", "any"} = {}
     /\ ~({"string", "enum"} \subseteq kinds)
     /\ Cardinality(kinds \cap {"class", "map", "object"}) <= 1

\* C13: isCanonical is true exactly for the unions with more than one
\* member, members of distinct kinds, no union, intersection, none or any
\* among them, not both string and enum, and at most one of class, map and
\* object
C13_IsCanonicalIff ==
  output.called => (output.ok /\ output.value = CanonicalKinds(input))

\* ------------------------------------------------------------------------
\* Properties of the declarations
\* ------------------------------------------------------------------------
Positions(kind, type) ==
  {p \in DOMAIN output.value.declarations : output.value.declarations[p] = Declaration(kind, type)}
ChildrenSuccessor == [t \in DOMAIN input.childrenOfType |-> SortedSeq(input.childrenOfType[t])]
OnCycleWith(t, u) == t # u /\ MutuallyReachable(ChildrenSuccessor, t, u)

\* C7: declarationsForGraph returns a list in which every define of a type
\* T comes after the define of each child of T that is not forward-declared
\* and after the forward of every forwarded type on a cycle with T
C7_DeclarationOrder ==
  output.called =>
    /\ output.ok
    /\ \A t \in 0 .. Len(input.childrenOfType) - 1 : \A p \in Positions("define", t) :
         /\ \A c \in input.childrenOfType[t + 1] \ (output.value.forwardedTypes \cup {t}) :
              \A q \in Positions("define", c) : q < p
         /\ \A f \in output.value.forwardedTypes :
              OnCycleWith(t, f) => \E q \in Positions("forward", f) : q < p

\* class A (type 0) with a property of type B (type 1) and class B with a
\* property of type A, both needing a declaration, both forward-declarable
TwoClassCycle ==
  [childrenOfType |-> <<{1}, {0}>>, needsDeclaration |-> {0, 1},
   canBeForwardDeclared |-> Some({0, 1})]

\* C8: for the two classes on a cycle declarationsForGraph returns forward
\* A, forward B, define A, define B, and {A, B} as the forwarded types
C8_TwoClassCycleDeclarations ==
  (output.called /\ input = TwoClassCycle) =>
    /\ output.ok
    /\ output.value.declarations =
         <<Declaration("forward", 0), Declaration("forward", 1),
           Declaration("define", 0), Declaration("define", 1)>>
    /\ output.value.forwardedTypes = {0, 1}

\* ------------------------------------------------------------------------
\* Properties of breakCycles
\* ------------------------------------------------------------------------
HasEdge(outEdges, a, b) == b \in Range(outEdges[a + 1])
\* the nodes of the sequence form a cycle of the graph, in this order
IsCycle(outEdges, cycle) ==
  /\ cycle # <<>>
  /\ \A i \in 1 .. Len(cycle) - 1 : HasEdge(outEdges, cycle[i], cycle[i + 1])
  /\ HasEdge(outEdges, cycle[Len(cycle)], cycle[1])

\* C9: every pair that breakCycles returns comes from a call of the chooser
\* with a sequence of nodes, none removed before, that is a cycle of the
\* graph; the breaker is a node of that cycle; the pairs are in the order
\* of removal, so that no breaker is listed twice
C9_BreakersOfRealCycles ==
  (output.called /\ output.ok) =>
    \A k \in DOMAIN output.value.ret :
      LET breaker == output.value.ret[k][1]
          cycle == output.value.ret[k][2]
      IN /\ IsCycle(input.outEdges, cycle)
         /\ breaker \in Range(cycle)
         /\ \A j \in 1 .. k - 1 : output.value.ret[j][1] \notin Range(cycle)

\* ------------------------------------------------------------------------
\* Properties of the rewrites
\* ------------------------------------------------------------------------
\* the results of the calls of reconstituteTypeRef for the members of a set
ResultsOf(set) == {i \in DOMAIN output.results : output.results[i].ref \in set}
\* the ref that the replacer of a set produced
ReplacedBy(set) == {mapGet(output.reconstitutedTypes, typeRefIndex(t)) : t \in set}

\* C20: in a replace rewrite over pairwise disjoint sets the construction of
\* the GraphRewriteBuilder succeeds, the replacer is called at most once for
\* a set, and every reconstitution of a member of a set succeeds with the
\* one ref that the replacer of the set produced
C20_ReplacedOncePerSet ==
  /\ output.constructed # "failed"
  /\ \A set \in DOMAIN output.replacerCalls : output.replacerCalls[set] <= 1
  /\ \A s \in DOMAIN input.setsToReplace :
       \A i \in ResultsOf(input.setsToReplace[s]) :
         /\ output.results[i].ok
         /\ ReplacedBy(input.setsToReplace[s]) = {output.results[i].ret}

\* C12: when flattenUnions returns and reports stable, every union of the
\* resulting graph is canonical
C12_StableIsCanonical ==
  (output.called /\ output.ok /\ output.value) =>
    \A i \in DOMAIN types :
      types[i].kind = "union" => CanonicalKinds(memberKindsOf(types, types[i]))

\* C14: after finish, every top-level name of the original graph is a
\* top-level of the result graph, bound to the reconstitution of the type of
\* the original top-level, and the result graph has no other top-level
C14_TopLevelsKept ==
  output.finished # "no" =>
    /\ output.finished = "ok"
    /\ typeGraph # None
    /\ DOMAIN typeGraph[1].topLevels = DOMAIN input.original.topLevels
    /\ \A n \in DOMAIN input.original.topLevels :
         typeGraph[1].topLevels[n] =
           mapGet(output.reconstitutedTypes, typeRefIndex(input.original.topLevels[n]))

\* ------------------------------------------------------------------------
\* Properties of the schema store
\* ------------------------------------------------------------------------
\* the fetch of the call of c was rejected and the call has settled
FetchFailed(c) == output.calls[c].pc = "done" /\ output.calls[c].fetched = Rejects

\* C19 as the specification states it: a get whose fetch rejects is itself
\* rejected
C19_FailureSurfaced ==
  \A c \in StoreCallers : FetchFailed(c) => output.calls[c].result.settled = "rejected"

\* C19: a get whose fetch rejects catches the rejection and resolves to
\* undefined, the result of an address without a schema
C19_FailureSwallowed ==
  \A c \in StoreCallers : FetchFailed(c) => output.calls[c].result = Resolved(Undefined)

\* C29: in every interleaving of the calls of get no call fails with the
\* assertion of add, and a call whose fetch returned a schema returns it
C29_NoCallFailsInAdd ==
  \A c \in StoreCallers :
    output.calls[c].pc = "done" =>
      /\ output.calls[c].result # Rejected("Cannot set a schema for an address twice")
      /\ output.calls[c].fetched \in JSONSchema =>
           output.calls[c].result = Resolved(output.calls[c].fetched)

\* a fetch was rejected after the other caller has stored a schema
C19_Witness ==
  \E c, d \in StoreCallers :
    /\ FetchFailed(c)
    /\ output.calls[d].pc = "done" /\ output.calls[d].result.settled = "resolved"
    /\ output.calls[d].result.value \in JSONSchema

\* ------------------------------------------------------------------------
\* Properties of the transformers
\* ------------------------------------------------------------------------
\* a transformer and its consumers are all stringify or parse-string
\* transformers
RECURSIVE StringChain(_)
StringChain(t) ==
  /\ t.kind \in {"stringify", "parse-string"}
  /\ t.consumer # None => StringChain(t.consumer[1])

NameObject ==
  [kind |-> "object", properties |-> [n \in {"name"} |-> ClassPropertyOf("string", FALSE)],
   additional |-> None]
AgeNameObject ==
  [kind |-> "object",
   properties |-> [n \in {"name", "age"} |->
                     IF n = "name" THEN ClassPropertyOf("string", TRUE)
                     ELSE ClassPropertyOf("integer", FALSE)],
   additional |-> None]
TwoObjects == Len(input) = 2 /\ input[1].kind = "object" /\ input[2].kind = "object"

C16_ConflatedDoubleKeepsMinimum ==
  (/\ output.called
   /\ input.conflateNumbers
   /\ input.members = << <<"integer", [k \in {"minMax"} |-> <<Some(0), None>>]>>,
                         <<"double", [k \in {"minMax"} |-> <<Some(-1), None>>]>> >>)
  => /\ output.ok
     /\ Len(types) = 1
     /\ types[1].kind = "double"
     /\ output.value = types[1].typeRef
     /\ "minMax" \in DOMAIN typeAttributes[1]
     /\ typeAttributes[1]["minMax"] = <<Some(-1), None>>

\* C25: structuallyCompatible returns false for two different types of
\* different kinds, unless conflateNumbers is set and the kinds are
\* integer and double
C25_DifferentKindsIncompatible ==
  (/\ output.called
   /\ input.a # input.b
   /\ input.types[input.a].kind # input.types[input.b].kind
   /\ ~(input.conflateNumbers
        /\ {input.types[input.a].kind, input.types[input.b].kind} = {"integer", "double"}))
  => output.value = FALSE

\* the nodes that the edges of successors lead to from the nodes of
\* frontier in up to k steps
RECURSIVE ReachableWithin(_, _, _)
ReachableWithin(successors, frontier, k) ==
  IF k = 0 THEN frontier
  ELSE ReachableWithin(successors,
                       frontier \cup UNION {Range(successors[v + 1]) : v \in frontier}, k - 1)
\* the number of the calls of process with the node n
CallsWith(calls, n) == Cardinality({i \in DOMAIN calls : calls[i] = n})
\* C27: dfsTraversal calls process exactly once with every node reachable
\* from the root and with no other node; the root comes first with
\* preOrder and last without it
C27_VisitsReachableOnce ==
  output.called =>
    /\ output.ok
    /\ \A n \in 0 .. Len(input.successors) - 1 :
         CallsWith(output.value, n) =
           IF n \in ReachableWithin(input.successors, {input.root}, Len(input.successors))
           THEN 1 ELSE 0
    /\ output.value[IF input.preOrder THEN 1 ELSE Len(output.value)] = input.root

\* the graph outEdges without the nodes removed and their edges
WithoutNodes(outEdges, removed) ==
  [v \in DOMAIN outEdges |->
     IF v - 1 \in removed THEN <<>> ELSE SelectSeq(outEdges[v], LAMBDA w : w \notin removed)]
\* no node of the graph is reachable from one of its successors
Acyclic(outEdges) ==
  \A v \in DOMAIN outEdges :
    v - 1 \notin ReachableWithin(outEdges, Range(outEdges[v]), Len(outEdges))
\* C28: with a chooser that returns a node of the cycle it is given,
\* breakCycles returns, and the graph without the breakers has no cycle
C28_ReturnsAndBreaksAllCycles ==
  (output.called /\ input.chooser \in {"first", "last"}) =>
    /\ output.ok
    /\ Acyclic(WithoutNodes(input.outEdges,
                            {output.value.ret[k][1] : k \in DOMAIN output.value.ret}))

\* the non-null cases of the properties i and j are both present and
\* those of j are not equal, as set operation cases, to those of i
IncompatibleCases(i, j) ==
  LET original == [types |-> input.types]
      ni == removeNullFromType(original, input.properties[i].type)
      nj == removeNullFromType(original, input.properties[j].type)
  IN /\ ni # <<>>
     /\ nj # <<>>
     /\ ~setOperationCasesEqual(original, "structuallyCompatible",
                                [workList |-> <<>>, failed |-> FALSE], nj, ni, TRUE).result
\* C26: a class whose property names are not all numbers and that has two
\* properties with incompatible non-null cases stays a class: shouldBeMap
\* returns undefined
C26_IncompatibleStaysClass ==
  (/\ output.called
   /\ \E i \in DOMAIN input.properties : ~isDigits(input.properties[i].name)
   /\ \E i \in DOMAIN input.properties, j \in DOMAIN input.properties :
        i < j /\ IncompatibleCases(i, j))
  => output.value = None

\* the descriptions of the members of the kind kind
DescriptionsOf(memberInputs, kind) ==
  UNION {memberInputs[i][2]["description"] :
           i \in {j \in DOMAIN memberInputs : /\ memberInputs[j][1] = kind
                                              /\ "description" \in DOMAIN memberInputs[j][2]}}
HasKind(memberInputs, kind) == \E i \in DOMAIN memberInputs : memberInputs[i][1] = kind

\* C24: when an enum and a string were added to a UnionAccumulator, in
\* either order, getMemberKinds returns, and its map has the kind string
\* and not the kind enum, with the attributes of the enums among those of
\* string
C24_EnumMovesToString ==
  (output.called /\ HasKind(input, "enum") /\ HasKind(input, "string")) =>
    /\ output.ok
    /\ "string" \in DOMAIN output.value
    /\ "enum" \notin DOMAIN output.value
    /\ DescriptionsOf(input, "enum") # {} =>
         /\ "description" \in DOMAIN output.value["string"]
         /\ DescriptionsOf(input, "enum") \subseteq output.value["string"]["description"]
\* C24 for the order that the code supports: when no enum was added before
\* the first string, getMemberKinds returns string, not enum, with the
\* attributes of the enums among those of string
C24_EnumAfterStringMoves ==
  (/\ output.called /\ HasKind(input, "enum") /\ HasKind(input, "string")
   /\ \A i \in DOMAIN input : input[i][1] = "enum" => \E j \in 1 .. i - 1 : input[j][1] = "string")
  => /\ output.ok
     /\ "string" \in DOMAIN output.value
     /\ "enum" \notin DOMAIN output.value
     /\ DescriptionsOf(input, "enum") # {} =>
          /\ "description" \in DOMAIN output.value["string"]
          /\ DescriptionsOf(input, "enum") \subseteq output.value["string"]["description"]
\* a string with a description, then an enum with another: the map has
\* both descriptions under string
C24_Witness ==
  /\ output.called /\ output.ok
  /\ input = << <<"string", [k \in {"description"} |-> {"s"}]>>,
                <<"enum", [k \in {"description"} |-> {"e"}]>> >>
  /\ output.value["string"]["description"] = {"e", "s"}

\* the members that have no array among their alternatives
WithoutArray(unionSets) ==
  {i \in DOMAIN unionSets : \A t \in Range(unionSets[i]) : t.kind # "array"}

\* C23: when one of the members added to an IntersectionAccumulator has no
\* array among its alternatives, the kinds that getMembersKinds returns do
\* not include array, wherever that member stands among the others
C23_ArraysDropped ==
  (output.called /\ output.ok /\ WithoutArray(input) # {}) =>
    "array" \notin DOMAIN output.value

\* ------------------------------------------------------------------------
\* Properties of the naming
\* ------------------------------------------------------------------------
RECURSIVE ForbiddenFrom(_, _)
\* the namespaces that the namespaces of from forbid, directly or
\* transitively
ForbiddenFrom(cfg, from) ==
  LET next == from \cup UNION {cfg.forbiddenNamespaces[ns] : ns \in from}
  IN IF next = from THEN from ELSE ForbiddenFrom(cfg, next)
ForbidsTransitively(cfg, a, b) ==
  b \in ForbiddenFrom(cfg, cfg.forbiddenNamespaces[a])

BothProposeUser(cfg, n1, n2) ==
  /\ n1 # n2 /\ n1[1] = n2[1]
  /\ nameAt(cfg, n1).kind = "simple" /\ nameAt(cfg, n2).kind = "simple"
  /\ nameAt(cfg, n1).unstyleNames = <<"User">> /\ nameAt(cfg, n2).unstyleNames = <<"User">>
  /\ nameAt(cfg, n1).namingFunction = nameAt(cfg, n2).namingFunction
  /\ nameAt(cfg, n1).order = nameAt(cfg, n2).order
\* the styled strings built from "User" with a prefix of the namer of n or
\* with a numeric suffix
BuiltFromUser(cfg, n) ==
  LET namer == nameAt(cfg, n).namingFunction
  IN {nameStyle(namer.nameStyle, namer.prefixes[i] \o "_User") : i \in DOMAIN namer.prefixes}
       \cup {nameStyle(namer.nameStyle, "User_" \o ToString(k)) : k \in 1 .. MaxNames + 2}
StyledUser(cfg, n) == nameStyle(nameAt(cfg, n).namingFunction.nameStyle, "User")

\* the names that assign had given a string before position i of trace
AssignedBefore(trace, i) ==
  {trace[j].nameds[1] : j \in {j \in 1 .. i - 1 : trace[j].op = "assign"}}

\* C21: whenever assignNames takes names as ready, hands names to a namer
\* or gives a name its string, every name that these names depend on was
\* given its string before
C21_DependenciesFirst ==
  output.called =>
    \A i \in DOMAIN output.trace :
      \A n \in Range(output.trace[i].nameds) :
        dependencies(input, n) \subseteq AssignedBefore(output.trace, i)
\* assignNames returned and had handed a namer a name that depends on a
\* name of a later order, which a namer named
C21_Witness ==
  /\ output.called /\ output.ok
  /\ \E i \in DOMAIN output.trace :
       /\ output.trace[i].op = "batch"
       /\ \E n \in Range(output.trace[i].nameds) :
            \E d \in dependencies(input, n) :
              /\ nameAt(input, d).kind = "simple"
              /\ nameAt(input, d).order > nameAt(input, n).order

\* the position of trace at which assign gave the name n its string, or 0
AssignedAt(trace, n) ==
  IF \E j \in DOMAIN trace : trace[j].op = "assign" /\ trace[j].nameds = <<n>>
  THEN CHOOSE j \in DOMAIN trace : trace[j].op = "assign" /\ trace[j].nameds = <<n>>
  ELSE 0

\* C22: when assignNames gives a name a string s, every associated name of
\* that name is given getName(s) in the same step, with nothing but
\* assignments in between, and no associated name is ever among the names
\* asked for their namer and proposals or handed to a namer
C22_AssociatesWithSponsor ==
  output.called =>
    /\ \A i \in DOMAIN output.trace :
         output.trace[i].op \in {"ready", "batch"} =>
           \A n \in Range(output.trace[i].nameds) : nameAt(input, n).kind # "associated"
    /\ \A i \in DOMAIN output.trace :
         output.trace[i].op = "assign" =>
           \A a \in Range(associates(input, output.trace[i].nameds[1])) :
             /\ AssignedAt(output.trace, a) > i
             /\ \A j \in i .. AssignedAt(output.trace, a) : output.trace[j].op = "assign"
             /\ output.value[a] = getName(output.value[output.trace[i].nameds[1]])

====
